---- MODULE Spec2Model ----
(***************************************************************************)
(* A model of the ComfyUI API client (openpose-workflow.py and             *)
(* qwen-mutli-workflow.py; the class ComfyUIClient is the same text in     *)
(* both files).  The model follows ComfyUIClient.wait_for_completion and   *)
(* ComfyUIClient.generate_image statement by statement.  The remote        *)
(* service is the environment: every response, every notification frame    *)
(* and every tick of the clock is a nondeterministic choice.               *)
(***************************************************************************)
EXTENDS Integers, Sequences, FiniteSets, TLC

VARIABLES
    stack,            \* active calls, caller first: <<"generate_image", "wait_for_completion">>
    pc,               \* position inside the innermost active call
    outcome,          \* "running", "return", or the exception that ended the outermost call
    now,              \* the clock (time.time(), datetime.now()), in seconds
    quota,            \* frames the notification channel may still deliver
    ws,               \* ComfyUIClient.ws: "none" (None) or "conn" (the connection object)
    conn,             \* the connection object created by wait_for_completion: "none", "open", "closed"
    timeout,          \* argument timeout
    prompt_id,        \* argument prompt_id of wait_for_completion
    start_time,       \* local start_time of wait_for_completion
    output_images,    \* local output_images of wait_for_completion: a dict, as its items in insertion order
    exitBy,           \* how the while loop was left: "none", "break", "deadline", "raise"
    lastMsg,          \* the frame the latest ws.recv() returned (NoFrame: none, or it raised)
    sawSignal,        \* history: a completion signal for prompt_id has been consumed
    executedLog,      \* history: the 'executed' frames with image output consumed, in order
    lateRecv,         \* history: some frame was delivered at or after the deadline
    gi_prompt_id,     \* local prompt_id of generate_image
    gi_output_images, \* local output_images of generate_image
    history,          \* local history of generate_image
    posn,             \* position of the nested for loops of generate_image: <<node index, image index>>
    saved_images,     \* local saved_images of generate_image
    files,            \* the output directory: the set of [path, data] of the files in it
    calls,            \* history: the requests and file writes generate_image has made, in order
    client_id,        \* ComfyUIClient.client_id ("none": no client constructed yet)
    sent,             \* history: the requests made, each as [op, client_id] with the client id it carries
    printed,          \* history: the diagnostics written to standard output
    main_pc,          \* position inside main ("none": main is not running)
    workflow,         \* the workflow dict: node id -> node record
    retval,           \* the value the latest helper call returned
    exit_code,        \* the exit status of the process (NoExit: still running)
    uploaded,         \* history: the paths upload_image has been called with, in order
    args,             \* the arguments of the helper called on its own
    env,              \* history: what the helper called on its own was given by its
                      \* surroundings (the file system, the response, the build of requests)
    signal            \* history: "lost" when the remote service emitted the completion
                      \* signal of the job while no connection was open, else "none"

vars ==
    <<stack, pc, outcome, now, quota, ws, conn, timeout, prompt_id, start_time,
      output_images, exitBy, lastMsg, sawSignal, executedLog, lateRecv,
      gi_prompt_id, gi_output_images, history, posn, saved_images, files, calls,
      client_id, sent, printed, main_pc, workflow, retval, exit_code, uploaded, args, env, signal>>

waitLocals == <<start_time, output_images>>
waitHist == <<exitBy, lastMsg, sawSignal, executedLog, lateRecv>>
runVars == <<gi_prompt_id, gi_output_images, history, posn, saved_images, files, calls>>
clientVars == <<client_id, sent, printed>>
mainVars == <<main_pc, workflow, retval, exit_code, uploaded, args, env, signal>>

----------------------------------------------------------------------------
(* Bounds of the model.                                                    *)

MaxTime == 2
MaxMsgs == 3
MaxRunMsgs == 1
MaxNodes == 2

Timeouts == {0, 1, 2}
PromptIds == {"p1", "p2"}
NodeIds == {"n1", "n2"}
Images == {"a", "b"}

----------------------------------------------------------------------------
(* Frames of the notification channel.  A frame is what ws.recv() returns: *)
(* bytes (frame "binary") or a str (frame "text").  json says what         *)
(* json.loads makes of the text: "object" (a dict), "nonobject" (a list, a *)
(* number, a string, null) or "invalid" (JSONDecodeError).  The has* flags *)
(* say which keys the dicts hold; node = "null" is JSON null.              *)

Frame(frame, json, type, hasData, hasNode, node, hasPid, pid, hasValue, hasOutput, hasImages, images) ==
    [frame |-> frame, json |-> json, type |-> type, hasData |-> hasData,
     hasNode |-> hasNode, node |-> node, hasPid |-> hasPid, pid |-> pid,
     hasValue |-> hasValue, hasOutput |-> hasOutput, hasImages |-> hasImages,
     images |-> images]

NoFrame ==
    Frame("none", "invalid", "absent", FALSE, FALSE, "null", FALSE, "", FALSE, FALSE, FALSE, <<>>)

BinaryFrame ==
    Frame("binary", "invalid", "absent", FALSE, FALSE, "null", FALSE, "", FALSE, FALSE, FALSE, <<>>)

TextFrame(json, type, hasData) ==
    Frame("text", json, type, hasData, FALSE, "null", FALSE, "", FALSE, FALSE, FALSE, <<>>)

ExecutingFrame(hasNode, node, hasPid, pid) ==
    Frame("text", "object", "executing", TRUE, hasNode, node, hasPid, pid, FALSE, FALSE, FALSE, <<>>)

ProgressFrame(hasValue) ==
    Frame("text", "object", "progress", TRUE, FALSE, "null", FALSE, "", hasValue, FALSE, FALSE, <<>>)

ExecutedFrame(hasNode, node, hasOutput, hasImages, images) ==
    Frame("text", "object", "executed", TRUE, hasNode, node, FALSE, "", FALSE, hasOutput, hasImages, images)

\* an 'executed' message as the service sends it, with data['prompt_id']
ExecutedFrameOf(pid, node, images) ==
    Frame("text", "object", "executed", TRUE, TRUE, node, TRUE, pid, FALSE, TRUE, TRUE, images)

ImageLists == {<<>>, <<"a">>, <<"b">>, <<"a", "b">>}

Frames ==
    {BinaryFrame}
    \cup {TextFrame("invalid", "absent", FALSE), TextFrame("nonobject", "absent", FALSE),
          TextFrame("object", "absent", FALSE), TextFrame("object", "status", TRUE),
          TextFrame("object", "executing", FALSE), TextFrame("object", "progress", FALSE),
          TextFrame("object", "executed", FALSE)}
    \cup {ExecutingFrame(TRUE, n, TRUE, p) : n \in {"null", "n1"}, p \in PromptIds}
    \cup {ExecutingFrame(FALSE, "null", TRUE, "p1"), ExecutingFrame(TRUE, "null", FALSE, ""),
          ExecutingFrame(TRUE, "n1", FALSE, "")}
    \cup {ProgressFrame(v) : v \in BOOLEAN}
    \cup {ExecutedFrame(TRUE, n, TRUE, TRUE, l) : n \in NodeIds, l \in ImageLists}
    \cup {ExecutedFrameOf("p2", "n1", <<"a">>)}
    \cup {ExecutedFrame(TRUE, "n1", FALSE, FALSE, <<>>), ExecutedFrame(TRUE, "n1", TRUE, FALSE, <<>>),
          ExecutedFrame(FALSE, "null", TRUE, TRUE, <<"a">>), ExecutedFrame(FALSE, "null", TRUE, TRUE, <<>>)}

----------------------------------------------------------------------------
(* Responses of the remote service to the HTTP requests of generate_image. *)
(* net = "error" is a request that raises (connection refused, timeout);   *)
(* json says what response.json() makes of the body.                       *)

\* the value of the key 'error' of a response body, and what else the body holds:
\* isDict: the value is a dict; hasMessage, message: its key 'message';
\* nodeErrors: the key 'node_errors' of the body is "absent", "ok" (a dict of dicts)
\* or "malformed" (anything else); beyond1000: the message lies behind the first
\* 1000 characters of the body text
ErrorDetail(isDict, hasMessage, message, nodeErrors, beyond1000) ==
    [isDict |-> isDict, hasMessage |-> hasMessage, message |-> message,
     nodeErrors |-> nodeErrors, beyond1000 |-> beyond1000]

NoErrorDetail == ErrorDetail(FALSE, FALSE, "", "absent", FALSE)

BadNode == ErrorDetail(TRUE, TRUE, "bad node", "absent", FALSE)

\* POST /prompt
SubmitResponse(net, status, json, hasPromptId, promptId, hasError) ==
    [net |-> net, status |-> status, json |-> json, hasPromptId |-> hasPromptId,
     promptId |-> promptId, hasError |-> hasError,
     detail |-> IF hasError THEN BadNode ELSE NoErrorDetail]

\* the identifiers the service assigns to the submitted job (the other element of
\* PromptIds is the identifier of somebody else's job)
SubmitIds == {"p1"}

SubmitResponses ==
    {SubmitResponse("error", 0, "invalid", FALSE, "", FALSE),
     SubmitResponse("ok", 400, "object", FALSE, "", TRUE),
     SubmitResponse("ok", 500, "invalid", FALSE, "", FALSE),
     SubmitResponse("ok", 200, "invalid", FALSE, "", FALSE),
     SubmitResponse("ok", 200, "nonobject", FALSE, "", FALSE)}
    \cup {SubmitResponse("ok", 200, "object", FALSE, "", e) : e \in BOOLEAN}
    \cup {SubmitResponse("ok", 200, "object", TRUE, p, FALSE) : p \in SubmitIds}

\* an image entry of the history: {"filename": ..., "subfolder": ..., "type": ...};
\* strings are sequences of characters
ImageInfo(hasFilename, filename, subfolder) ==
    [hasFilename |-> hasFilename, filename |-> filename, subfolder |-> subfolder]

ImageA == ImageInfo(TRUE, <<"o", ".", "p">>, "")
ImageB == ImageInfo(TRUE, <<"o", ".", "p">>, "sub")
ImageC == ImageInfo(TRUE, <<"q">>, "")
ImageD == ImageInfo(FALSE, <<>>, "")

\* a node output of the history: with or without the key 'images'
NodeOutput(hasImages, images) == [hasImages |-> hasImages, images |-> images]

NodeOutputs ==
    {NodeOutput(FALSE, <<>>)}
    \cup {NodeOutput(TRUE, l) : l \in {<<>>, <<ImageA, ImageB>>, <<ImageC>>, <<ImageD>>}}

\* history[prompt_id]['outputs'].items(), in the order of the response
OutputsLists == UNION {[1..n -> NodeOutputs] : n \in 0..MaxNodes}

\* GET /history/{prompt_id}: a dict with at most one key
HistoryResponse(net, json, key, hasOutputs, outputs) ==
    [net |-> net, json |-> json, key |-> key, hasOutputs |-> hasOutputs, outputs |-> outputs]

NoHistory == HistoryResponse("none", "invalid", "none", FALSE, <<>>)

HistoryResponses ==
    {HistoryResponse("error", "invalid", "none", FALSE, <<>>),
     HistoryResponse("ok", "invalid", "none", FALSE, <<>>),
     HistoryResponse("ok", "object", "none", FALSE, <<>>)}
    \cup {HistoryResponse("ok", "object", k, FALSE, <<>>) : k \in PromptIds}
    \cup {HistoryResponse("ok", "object", k, TRUE, o) : k \in PromptIds, o \in OutputsLists}

\* GET /view
ViewResponses ==
    {[net |-> "error", status |-> 0], [net |-> "ok", status |-> 200], [net |-> "ok", status |-> 404]}

----------------------------------------------------------------------------
(* The requests of the client, each with the client id it carries: the     *)
(* body of POST /prompt holds the key 'client_id' and the URL of the       *)
(* websocket the parameter clientId; the other requests carry the URL, the *)
(* headers of _get_headers (the API key) and their own payload.            *)

Request(op, cid) == [op |-> op, client_id |-> cid]

\* a variant of WsConnectRequest that puts a newly generated id into the URL
WsConnectRequestFresh(cid) == Request("ws", "fresh")

ProbeRequest(cid) == Request("system_stats", "none")
UploadRequest(cid) == Request("upload/image", "none")
PromptRequest(cid) == Request("prompt", cid)
WsConnectRequest(cid) == Request("ws", cid)
HistoryRequest(cid) == Request("history", "none")
ViewRequest(cid) == Request("view", "none")

----------------------------------------------------------------------------
(* Standard output: the set of the lines printed, each with the server's   *)
(* error messages that occur in it.                                        *)

Line(what, mentions) == [what |-> what, mentions |-> mentions]

----------------------------------------------------------------------------
(* The workflow: a dict from node id to node, loaded from a JSON file as   *)
(* it is.  A node is present or not, holds the key 'inputs' or not, and    *)
(* its inputs hold each of the keys image, prompt, lora_name and seed or   *)
(* not.  File names and paths are sequences of characters.                 *)

Field(has, val) == [has |-> has, val |-> val]

Inputs(image, prompt, lora_name, seed) ==
    [image |-> image, prompt |-> prompt, lora_name |-> lora_name, seed |-> seed]

Node(present, class_type, hasInputs, inputs) ==
    [present |-> present, class_type |-> class_type, hasInputs |-> hasInputs,
     inputs |-> inputs]

EmptyInputs == Inputs(Field(FALSE, <<>>), Field(FALSE, ""), Field(FALSE, ""), Field(FALSE, 0))

OldInputs ==
    Inputs(Field(TRUE, <<"o", "l", "d">>), Field(TRUE, "old prompt"), Field(TRUE, "old lora"),
           Field(TRUE, 7))

AbsentNode == Node(FALSE, "", FALSE, EmptyInputs)

\* the node ids the helpers of the two scripts address
WorkflowNodeIds == {"1", "3", "78", "89", "106", "108", "111"}

NodeKinds == {Node(TRUE, "K", FALSE, EmptyInputs), Node(TRUE, "K", TRUE, EmptyInputs),
              Node(TRUE, "K", TRUE, OldInputs)}

\* the workflows of the model: any set of the node ids present, the nodes alike
Workflows ==
    {[n \in WorkflowNodeIds |-> IF n \in S THEN k ELSE AbsentNode] :
        S \in SUBSET WorkflowNodeIds, k \in NodeKinds}

EmptyWorkflow == [n \in WorkflowNodeIds |-> AbsentNode]

NoExit == -1

NoArgs == [helper |-> "none"]

NoEnv == [given |-> FALSE]

Env(exists, resp, jre) == [given |-> TRUE, exists |-> exists, resp |-> resp, jre |-> jre]

\* the result of a call: the value returned, or the exception raised
Returns(v) == [ok |-> TRUE, value |-> v, err |-> "none"]

Fails(e) == [ok |-> FALSE, value |-> "", err |-> e]

----------------------------------------------------------------------------
(* A Python dict, as the sequence of its items in insertion order.         *)

DictKeys(d) == {d[i].key : i \in 1..Len(d)}

DictGet(d, k) ==
    LET i == CHOOSE j \in 1..Len(d) : d[j].key = k IN d[i].val

\* d[k] = v: the value of an existing key is replaced in place, a new key is appended
DictSet(d, k, v) ==
    IF k \in DictKeys(d)
    THEN [i \in 1..Len(d) |-> IF d[i].key = k THEN [key |-> k, val |-> v] ELSE d[i]]
    ELSE Append(d, [key |-> k, val |-> v])

----------------------------------------------------------------------------
(* The body of the while loop of wait_for_completion, after ws.recv() has  *)
(* returned a frame.  The result says how control leaves the body          *)
(* ("continue", "break", "raise"), the dict output_images after it, and    *)
(* the exception raised.                                                   *)

Continue(out) == [ctl |-> "continue", out |-> out, err |-> "none"]

Break(out) == [ctl |-> "break", out |-> out, err |-> "none"]

Raise(out, e) == [ctl |-> "raise", out |-> out, err |-> e]

\* a variant of StoreImages that keeps what a node already has (setdefault)
StoreImagesKeepFirst(out, node, images) ==
    IF images = <<>> \/ node \in DictKeys(out)
    THEN out
    ELSE DictSet(out, node, Head(images))

\* for image in data['output']['images']: output_images[data['node']] = image
RECURSIVE StoreImages(_, _, _)
StoreImages(out, node, images) ==
    IF images = <<>>
    THEN out
    ELSE StoreImages(DictSet(out, node, Head(images)), node, Tail(images))

\* a variant of IsFinished that does not compare the prompt id
IsFinishedAnyPrompt(m, pid) ==
    m.node = "null"

\* data['node'] is None and data['prompt_id'] == prompt_id
IsFinished(m, pid) ==
    m.node = "null" /\ m.pid = pid

\* message['type'] == 'executing'
OnExecuting(m, out, pid) ==
    IF ~m.hasData THEN Raise(out, "KeyError")
    ELSE IF ~m.hasNode THEN Raise(out, "KeyError")
    ELSE IF m.node # "null" THEN Continue(out)
    ELSE IF ~m.hasPid THEN Raise(out, "KeyError")
    ELSE IF IsFinished(m, pid) THEN Break(out)
    ELSE Continue(out)

\* message['type'] == 'progress': prints data['value'], data['max'], data.get('type', '')
OnProgress(m, out) ==
    IF ~m.hasData \/ ~m.hasValue THEN Raise(out, "KeyError") ELSE Continue(out)

\* a variant of OnExecuted that skips the messages of other jobs
OnExecutedOwnJob(m, out) ==
    IF ~m.hasData THEN Raise(out, "KeyError")
    ELSE IF m.hasPid /\ m.pid # prompt_id THEN Continue(out)
    ELSE IF m.hasOutput /\ m.hasImages
    THEN IF m.images = <<>> THEN Continue(out)
         ELSE IF ~m.hasNode THEN Raise(out, "KeyError")
         ELSE Continue(StoreImages(out, m.node, m.images))
    ELSE Continue(out)

\* message['type'] == 'executed'
OnExecuted(m, out) ==
    IF ~m.hasData THEN Raise(out, "KeyError")
    ELSE IF m.hasOutput /\ m.hasImages
    THEN IF m.images = <<>> THEN Continue(out)
         ELSE IF ~m.hasNode THEN Raise(out, "KeyError")
         ELSE Continue(StoreImages(out, m.node, m.images))
    ELSE Continue(out)

\* a variant of OnOtherType that leaves the loop
OnOtherTypeBreak(m, out) == Break(out)

\* any other message['type']: no branch of the if/elif chain is taken
OnOtherType(m, out) == Continue(out)

\* else: continue  (the frame is not a str)
OnBinary(m, out) == Continue(out)

\* isinstance(out, str): message = json.loads(out), then the if/elif chain on message['type']
OnText(m, out, pid) ==
    IF m.json = "invalid" THEN Raise(out, "JSONDecodeError")
    ELSE IF m.json = "nonobject" THEN Raise(out, "TypeError")
    ELSE IF m.type = "absent" THEN Raise(out, "KeyError")
    ELSE IF m.type = "executing" THEN OnExecuting(m, out, pid)
    ELSE IF m.type = "progress" THEN OnProgress(m, out)
    ELSE IF m.type = "executed" THEN OnExecuted(m, out)
    ELSE OnOtherType(m, out)

HandleFrame(m, out, pid) ==
    IF m.frame = "text" THEN OnText(m, out, pid) ELSE OnBinary(m, out)

\* while time.time() - start_time < timeout
LoopCond(t, start, limit) == t - start < limit

\* if time.time() - start_time >= timeout: raise TimeoutError
TimedOut(t, start, limit) == t - start >= limit

----------------------------------------------------------------------------
(* History variables are updated from the frame alone, not from what the   *)
(* loop body made of it.                                                   *)

IsCompletionSignal(m, pid) ==
    /\ m.frame = "text" /\ m.json = "object" /\ m.type = "executing"
    /\ m.hasData /\ m.hasNode /\ m.node = "null" /\ m.hasPid /\ m.pid = pid

HasImageOutput(m) ==
    /\ m.frame = "text" /\ m.json = "object" /\ m.type = "executed"
    /\ m.hasData /\ m.hasNode /\ m.hasOutput /\ m.hasImages /\ m.images # <<>>

----------------------------------------------------------------------------
(* wait_for_completion                                                     *)

InWait == stack # <<>> /\ stack[Len(stack)] = "wait_for_completion"

\* a variant of WaitRaises in which generate_image catches TimeoutError and goes on
WaitRaisesTimeoutCaught(e) ==
    IF e = "TimeoutError" /\ Len(stack) = 2
    THEN /\ stack' = <<"generate_image">>
         /\ pc' = "get_history"
         /\ outcome' = outcome
    ELSE /\ stack' = <<>>
         /\ pc' = "done"
         /\ outcome' = e

\* a variant of WaitRaises in which a wait that has timed out is started again
WaitRaisesRetry(e) ==
    IF e = "TimeoutError"
    THEN /\ stack' = stack
         /\ pc' = "connect"
         /\ outcome' = outcome
    ELSE /\ stack' = <<>>
         /\ pc' = "done"
         /\ outcome' = e

\* an exception leaves wait_for_completion; generate_image has no handler, so it
\* leaves generate_image too
WaitRaises(e) ==
    /\ stack' = <<>>
    /\ pc' = "done"
    /\ outcome' = e

\* self.ws = websocket.create_connection(ws_url, sslopt=sslopt); start_time = time.time();
\* output_images = {}
WaitConnect ==
    /\ InWait /\ pc = "connect"
    /\ ws' = "conn"
    /\ conn' = "open"
    /\ start_time' = now
    /\ output_images' = <<>>
    /\ pc' = "while"
    /\ sent' = sent \cup {WsConnectRequest(client_id)}
    /\ UNCHANGED <<stack, outcome, now, quota, timeout, prompt_id, waitHist, runVars>>
    /\ UNCHANGED <<client_id, printed, mainVars>>

\* create_connection raises: self.ws is not assigned
WaitConnectFails ==
    /\ InWait /\ pc = "connect"
    /\ WaitRaises("WebSocketException")
    /\ sent' = sent \cup {WsConnectRequest(client_id)}
    /\ UNCHANGED <<now, quota, ws, conn, timeout, prompt_id, waitLocals, waitHist, runVars>>
    /\ UNCHANGED <<client_id, printed, mainVars>>

\* the loop condition
WaitLoopCheck ==
    /\ InWait /\ pc = "while"
    /\ IF LoopCond(now, start_time, timeout)
       THEN pc' = "recv" /\ exitBy' = exitBy
       ELSE pc' = "close" /\ exitBy' = "deadline"
    /\ UNCHANGED <<stack, outcome, now, quota, ws, conn, timeout, prompt_id, waitLocals,
                   lastMsg, sawSignal, executedLog, lateRecv, runVars>>
    /\ UNCHANGED <<clientVars, mainVars>>

\* the frames ws.recv() can return: a frame the remote service sent while the
\* connection was open.  The completion signal of a job is sent once, so it
\* is not among them when it was sent before the connection was opened.
Deliverable ==
    IF signal = "lost"
    THEN {m \in Frames : ~IsCompletionSignal(m, prompt_id)}
    ELSE Frames

\* a variant of WaitRecv whose receive gives up at the deadline: a frame that
\* arrives at or after it is dropped and the wait fails with TimeoutError
WaitRecvUntilDeadline ==
    /\ InWait /\ pc = "recv" /\ quota > 0
    /\ \E m \in Deliverable :
        LET r == IF TimedOut(now, start_time, timeout)
                 THEN Raise(output_images, "TimeoutError")
                 ELSE HandleFrame(m, output_images, prompt_id)
        IN
        /\ quota' = quota - 1
        /\ lastMsg' = m
        /\ sawSignal' = (sawSignal \/ IsCompletionSignal(m, prompt_id))
        /\ executedLog' = IF HasImageOutput(m)
                          THEN Append(executedLog, [node |-> m.node, images |-> m.images,
                                                    pid |-> m.pid])
                          ELSE executedLog
        /\ lateRecv' = (lateRecv \/ now - start_time >= timeout)
        /\ output_images' = r.out
        /\ CASE r.ctl = "continue" ->
                  pc' = "while" /\ exitBy' = exitBy /\ UNCHANGED <<stack, outcome>>
             [] r.ctl = "break" ->
                  pc' = "close" /\ exitBy' = "break" /\ UNCHANGED <<stack, outcome>>
             [] r.ctl = "raise" ->
                  exitBy' = "raise" /\ WaitRaises(r.err)
    /\ UNCHANGED <<now, ws, conn, timeout, prompt_id, start_time, runVars>>
    /\ UNCHANGED <<clientVars, mainVars>>

\* out = self.ws.recv() returns a frame, and the loop body handles it
WaitRecv ==
    /\ InWait /\ pc = "recv" /\ quota > 0
    /\ \E m \in Deliverable :
        LET r == HandleFrame(m, output_images, prompt_id) IN
        /\ quota' = quota - 1
        /\ lastMsg' = m
        /\ sawSignal' = (sawSignal \/ IsCompletionSignal(m, prompt_id))
        /\ executedLog' = IF HasImageOutput(m)
                          THEN Append(executedLog, [node |-> m.node, images |-> m.images,
                                                    pid |-> m.pid])
                          ELSE executedLog
        /\ lateRecv' = (lateRecv \/ now - start_time >= timeout)
        /\ output_images' = r.out
        /\ CASE r.ctl = "continue" ->
                  pc' = "while" /\ exitBy' = exitBy /\ UNCHANGED <<stack, outcome>>
             [] r.ctl = "break" ->
                  pc' = "close" /\ exitBy' = "break" /\ UNCHANGED <<stack, outcome>>
             [] r.ctl = "raise" ->
                  exitBy' = "raise" /\ WaitRaises(r.err)
    /\ UNCHANGED <<now, ws, conn, timeout, prompt_id, start_time, runVars>>
    /\ UNCHANGED <<clientVars, mainVars>>

\* self.ws.recv() raises (the peer closed the connection, the network failed)
WaitRecvFails ==
    /\ InWait /\ pc = "recv"
    /\ exitBy' = "raise"
    /\ lastMsg' = NoFrame
    /\ WaitRaises("WebSocketException")
    /\ UNCHANGED <<now, quota, ws, conn, timeout, prompt_id, waitLocals,
                   sawSignal, executedLog, lateRecv, runVars>>
    /\ UNCHANGED <<clientVars, mainVars>>

\* a variant of WaitClose that closes the connection only after a break
WaitCloseAfterBreakOnly ==
    /\ InWait /\ pc = "close"
    /\ conn' = IF exitBy = "break" THEN "closed" ELSE conn
    /\ ws' = IF exitBy = "break" THEN "none" ELSE ws
    /\ pc' = "final"
    /\ UNCHANGED <<stack, outcome, now, quota, timeout, prompt_id, waitLocals, waitHist, runVars>>
    /\ UNCHANGED <<clientVars, mainVars>>

\* self.ws.close(); self.ws = None
WaitClose ==
    /\ InWait /\ pc = "close"
    /\ conn' = "closed"
    /\ ws' = "none"
    /\ pc' = "final"
    /\ UNCHANGED <<stack, outcome, now, quota, timeout, prompt_id, waitLocals, waitHist, runVars>>
    /\ UNCHANGED <<clientVars, mainVars>>

\* if time.time() - start_time >= timeout: raise TimeoutError(...)
WaitTimeout ==
    /\ InWait /\ pc = "final"
    /\ TimedOut(now, start_time, timeout)
    /\ WaitRaises("TimeoutError")
    /\ UNCHANGED <<now, quota, ws, conn, timeout, prompt_id, waitLocals, waitHist, runVars>>
    /\ UNCHANGED <<clientVars, mainVars>>

\* return output_images: to the caller of wait_for_completion, or into
\* generate_image at  output_images = self.wait_for_completion(prompt_id, timeout)
WaitReturn ==
    /\ InWait /\ pc = "final"
    /\ ~TimedOut(now, start_time, timeout)
    /\ IF Len(stack) = 1
       THEN /\ stack' = <<>> /\ pc' = "done" /\ outcome' = "return"
            /\ UNCHANGED <<gi_output_images, calls>>
       ELSE /\ stack' = SubSeq(stack, 1, Len(stack) - 1)
            /\ pc' = "get_history"
            /\ outcome' = outcome
            /\ gi_output_images' = output_images
            /\ calls' = Append(calls, "wait_ok")
    /\ UNCHANGED <<now, quota, ws, conn, timeout, prompt_id, waitLocals, waitHist,
                   gi_prompt_id, history, posn, saved_images, files>>
    /\ UNCHANGED <<clientVars, mainVars>>

\* the clock advances while the call runs
TickPcs == {"while", "recv", "close", "final", "fetch"}

\* a variant of Tick in which a pending receive is given up when the clock
\* reaches the deadline
TickRecvTimesOut ==
    /\ stack # <<>> /\ pc \in TickPcs
    /\ now < MaxTime
    /\ now' = now + 1
    /\ IF pc = "recv" /\ TimedOut(now + 1, start_time, timeout)
       THEN pc' = "close" /\ exitBy' = "deadline"
       ELSE pc' = pc /\ exitBy' = exitBy
    /\ UNCHANGED <<stack, outcome, quota, ws, conn, timeout, prompt_id, waitLocals,
                   lastMsg, sawSignal, executedLog, lateRecv, runVars>>
    /\ UNCHANGED <<clientVars, mainVars>>

Tick ==
    /\ stack # <<>> /\ pc \in TickPcs
    /\ now < MaxTime
    /\ now' = now + 1
    /\ UNCHANGED <<stack, pc, outcome, quota, ws, conn, timeout, prompt_id, waitLocals,
                   waitHist, runVars>>
    /\ UNCHANGED <<clientVars, mainVars>>

----------------------------------------------------------------------------
(* wait_for_completion called on its own, with a prompt id and a timeout.  *)

InitCommon ==
    /\ outcome = "running"
    /\ ws = "none"
    /\ conn = "none"
    /\ start_time = 0
    /\ output_images = <<>>
    /\ exitBy = "none"
    /\ lastMsg = NoFrame
    /\ sawSignal = FALSE
    /\ executedLog = <<>>
    /\ lateRecv = FALSE
    /\ gi_prompt_id = ""
    /\ gi_output_images = <<>>
    /\ history = NoHistory
    /\ posn = <<1, 1>>
    /\ saved_images = <<>>
    /\ files = {}
    /\ calls = <<>>
    /\ sent = {}
    /\ printed = {}
    /\ exit_code = NoExit
    /\ uploaded = <<>>
    /\ env = NoEnv
    /\ signal = "none"

\* a client has been constructed; no script is running
InitClient ==
    /\ client_id = "c1"
    /\ main_pc = "none"
    /\ workflow = EmptyWorkflow
    /\ args = NoArgs
    /\ retval = Returns("")

InitWait ==
    /\ InitCommon
    /\ InitClient
    /\ timeout \in Timeouts
    /\ now = 0
    /\ stack = <<"wait_for_completion">>
    /\ pc = "connect"
    /\ quota = MaxMsgs
    /\ prompt_id \in PromptIds

NextWait ==
    \/ WaitConnect
    \/ WaitConnectFails
    \/ WaitLoopCheck
    \/ WaitRecv
    \/ WaitRecvFails
    \/ WaitClose
    \/ WaitTimeout
    \/ WaitReturn
    \/ Tick

SpecWait == InitWait /\ [][NextWait]_vars

----------------------------------------------------------------------------
(* queue_prompt, get_history and get_image, as functions of the response.  *)

\* a variant of queue_prompt that takes the id with a default:
\* response_json.get('prompt_id', '')
queue_prompt_default(resp) ==
    IF resp.net = "error" THEN Fails("RequestException")
    ELSE IF resp.status >= 400 THEN Fails("RequestException")
    ELSE IF resp.json = "invalid" THEN Fails("ValueError")
    ELSE IF resp.json = "nonobject" THEN Fails("KeyError")
    ELSE Returns(IF resp.hasPromptId THEN resp.promptId ELSE "")

\* queue_prompt: requests.post, raise_for_status, req.json(), the 'prompt_id' check;
\* every except clause re-raises
queue_prompt(resp) ==
    IF resp.net = "error" THEN Fails("RequestException")
    ELSE IF resp.status >= 400 THEN Fails("RequestException")
    ELSE IF resp.json = "invalid" THEN Fails("ValueError")
    ELSE IF resp.json = "nonobject" THEN Fails("KeyError")
    ELSE IF ~resp.hasPromptId
    THEN IF resp.hasError THEN Fails("ValueError") ELSE Fails("KeyError")
    ELSE Returns(resp.promptId)

\* response.json() of an undecodable body raises json.JSONDecodeError, a ValueError;
\* since requests 2.27 it raises requests.exceptions.JSONDecodeError, which is a
\* RequestException as well.  The source pins no version of requests.
JsonErrorIsRequestException == BOOLEAN

\* what the Response text line of queue_prompt shows of the server's messages:
\* response_text[:1000]
TextMentions(resp) ==
    IF resp.json = "object" /\ resp.hasError /\ resp.detail.isDict /\ resp.detail.hasMessage
       /\ ~resp.detail.beyond1000
    THEN {resp.detail.message}
    ELSE {}

\* what the whole body shows of the server's messages: json.dumps(response_json), str(e)
BodyMentions(resp) ==
    IF resp.json = "object" /\ resp.hasError /\ resp.detail.isDict /\ resp.detail.hasMessage
    THEN {resp.detail.message}
    ELSE {}

\* a variant of Breakdown that shows the node errors only
BreakdownNodeErrorsOnly(resp) ==
    IF resp.json # "object" \/ resp.detail.nodeErrors = "malformed" THEN {}
    ELSE IF resp.detail.nodeErrors = "ok" THEN {Line("Node Errors:", {})} ELSE {}

\* the breakdown the first except clause of queue_prompt prints after json.loads of
\* the response text; an exception inside it is swallowed (except: pass)
Breakdown(resp) ==
    IF resp.json # "object" \/ resp.detail.nodeErrors = "malformed" THEN {}
    ELSE (IF resp.detail.nodeErrors = "ok" THEN {Line("Node Errors:", {})} ELSE {})
         \cup (IF resp.hasError /\ resp.detail.isDict
               THEN {Line("Error:", IF resp.detail.hasMessage
                                    THEN {resp.detail.message}
                                    ELSE {"Unknown error"})}
               ELSE {})

\* the lines queue_prompt prints; jre: the JSON error of this build of requests is
\* a RequestException
QueuePromptPrints(resp, jre) ==
    IF resp.net = "error" THEN {Line("Error queueing prompt:", {})}
    ELSE IF resp.status >= 400
    THEN {Line("Error queueing prompt:", {}), Line("Response status:", {}),
          Line("Response text:", TextMentions(resp))} \cup Breakdown(resp)
    ELSE IF resp.json = "invalid"
    THEN IF jre THEN {Line("Error queueing prompt:", {})}
         ELSE {Line("Error parsing response:", {})}
    ELSE IF resp.json = "nonobject"
    THEN {Line("Error: Response does not contain 'prompt_id'", {}), Line("Response:", {}),
          Line("Error parsing response:", {})}
    ELSE IF ~resp.hasPromptId
    THEN {Line("Error: Response does not contain 'prompt_id'", {}),
          Line("Response:", BodyMentions(resp)),
          Line("Error parsing response:", BodyMentions(resp))}
    ELSE {}

\* get_history: requests.get, return response.json()  (no raise_for_status)
get_history(resp) ==
    IF resp.net = "error" THEN Fails("RequestException")
    ELSE IF resp.json = "invalid" THEN Fails("ValueError")
    ELSE Returns(resp)

\* get_image: requests.get, return response.content  (no raise_for_status): the
\* bytes of the artifact, or the body of an error page
get_image(resp, filename, subfolder, folder_type) ==
    IF resp.net = "error" THEN Fails("RequestException")
    ELSE IF resp.status = 200
    THEN Returns([kind |-> "image", filename |-> filename, subfolder |-> subfolder,
                  type |-> folder_type])
    ELSE Returns([kind |-> "errorpage", filename |-> <<>>, subfolder |-> "", type |-> ""])

----------------------------------------------------------------------------
(* The name of the saved file.                                             *)

LastIndexOf(str, c) ==
    IF \E i \in 1..Len(str) : str[i] = c
    THEN CHOOSE i \in 1..Len(str) : str[i] = c /\ \A j \in (i + 1)..Len(str) : str[j] # c
    ELSE 0

\* os.path.splitext: the extension starts at the last dot of the last path
\* component, unless only dots precede it there
splitext(str) ==
    LET sepIndex == LastIndexOf(str, "/")
        dotIndex == LastIndexOf(str, ".")
    IN IF dotIndex > sepIndex /\ \E i \in (sepIndex + 1)..(dotIndex - 1) : str[i] # "."
       THEN <<SubSeq(str, 1, dotIndex - 1), SubSeq(str, dotIndex, Len(str))>>
       ELSE <<str, <<>>>>

Digits == <<"0", "1", "2", "3", "4", "5", "6", "7", "8", "9">>

\* datetime.now().strftime("%Y%m%d_%H%M%S"), the clock counted in seconds from
\* 2026-01-01 00:00:00
strftime(t) ==
    <<"2", "0", "2", "6", "0", "1", "0", "1", "_", "0", "0",
      Digits[((t \div 600) % 6) + 1], Digits[((t \div 60) % 10) + 1],
      Digits[((t \div 10) % 6) + 1], Digits[(t % 10) + 1]>>

\* a variant of new_filename that puts the timestamp after the extension
new_filename_appended(filename, t) == filename \o <<"_">> \o strftime(t)

\* name, ext = os.path.splitext(filename); new_filename = f"{name}_{timestamp}{ext}"
new_filename(filename, t) ==
    LET ne == splitext(filename) IN ne[1] \o <<"_">> \o strftime(t) \o ne[2]

output_dir == <<"o", "u", "t">>

\* os.path.join(output_dir, new_filename)
join(dir, name) ==
    IF name # <<>> /\ name[1] = "/" THEN name
    ELSE IF dir = <<>> \/ dir[Len(dir)] = "/" THEN dir \o name
    ELSE dir \o <<"/">> \o name

\* with open(output_path, 'wb') as f: f.write(image_data): a file of that path is replaced
write_file(dir, path, data) ==
    {f \in dir : f.path # path} \cup {[path |-> path, data |-> data]}

\* a variant of PromptInHistory that takes whatever entry the response holds
PromptInHistoryAny(h, pid) == h.key # "none"

\* if prompt_id in history
PromptInHistory(h, pid) == h.key = pid

----------------------------------------------------------------------------
(* generate_image                                                          *)

InRun == stack # <<>> /\ stack[Len(stack)] = "generate_image"

\* an exception leaves generate_image
RunRaises(e) ==
    /\ stack' = <<>>
    /\ pc' = "done"
    /\ outcome' = e

\* os.makedirs(output_dir, exist_ok=True); prompt_id = self.queue_prompt(workflow);
\* then the call  self.wait_for_completion(prompt_id, timeout)
GiQueuePrompt ==
    /\ InRun /\ pc = "queue_prompt"
    /\ \E resp \in SubmitResponses, jre \in JsonErrorIsRequestException :
        LET r == queue_prompt(resp) IN
        /\ sent' = sent \cup {PromptRequest(client_id)}
        /\ printed' = printed \cup QueuePromptPrints(resp, jre)
        /\ IF r.ok
           THEN /\ gi_prompt_id' = r.value
                /\ prompt_id' = r.value
                /\ stack' = Append(stack, "wait_for_completion")
                /\ pc' = "connect"
                /\ outcome' = outcome
                /\ calls' = calls \o <<"queue_prompt", "wait_for_completion">>
           ELSE /\ RunRaises(r.err)
                /\ calls' = Append(calls, "queue_prompt")
                /\ UNCHANGED <<gi_prompt_id, prompt_id>>
    /\ UNCHANGED <<now, quota, ws, conn, timeout, waitLocals, waitHist,
                   gi_output_images, history, posn, saved_images, files>>
    /\ UNCHANGED <<client_id, mainVars>>

\* a variant of GiGetHistory that collects only when the notification channel
\* reported an image: without one it returns the empty list
GiGetHistoryIfNotified ==
    /\ InRun /\ pc = "get_history"
    /\ calls' = Append(calls, "get_history")
    /\ sent' = sent \cup {HistoryRequest(client_id)}
    /\ \E resp \in HistoryResponses :
        LET r == get_history(resp) IN
        IF ~r.ok
        THEN RunRaises(r.err) /\ UNCHANGED <<history, posn, saved_images>>
        ELSE /\ history' = r.value
             /\ saved_images' = <<>>
             /\ posn' = <<1, 1>>
             /\ IF ~PromptInHistory(r.value, gi_prompt_id) \/ gi_output_images = <<>>
                THEN pc' = "return" /\ UNCHANGED <<stack, outcome>>
                ELSE IF ~r.value.hasOutputs
                THEN RunRaises("KeyError")
                ELSE pc' = "for_node" /\ UNCHANGED <<stack, outcome>>
    /\ UNCHANGED <<now, quota, ws, conn, timeout, prompt_id, waitLocals, waitHist,
                   gi_prompt_id, gi_output_images, files>>
    /\ UNCHANGED <<client_id, printed, mainVars>>

\* history = self.get_history(prompt_id); saved_images = []; if prompt_id in history:
\* for node_id, node_output in history[prompt_id]['outputs'].items():
GiGetHistory ==
    /\ InRun /\ pc = "get_history"
    /\ calls' = Append(calls, "get_history")
    /\ sent' = sent \cup {HistoryRequest(client_id)}
    /\ \E resp \in HistoryResponses :
        LET r == get_history(resp) IN
        IF ~r.ok
        THEN RunRaises(r.err) /\ UNCHANGED <<history, posn, saved_images>>
        ELSE /\ history' = r.value
             /\ saved_images' = <<>>
             /\ posn' = <<1, 1>>
             /\ IF ~PromptInHistory(r.value, gi_prompt_id)
                THEN pc' = "return" /\ UNCHANGED <<stack, outcome>>
                ELSE IF ~r.value.hasOutputs
                THEN RunRaises("KeyError")
                ELSE pc' = "for_node" /\ UNCHANGED <<stack, outcome>>
    /\ UNCHANGED <<now, quota, ws, conn, timeout, prompt_id, waitLocals, waitHist,
                   gi_prompt_id, gi_output_images, files>>
    /\ UNCHANGED <<client_id, printed, mainVars>>

\* the outer for loop takes the next node output, or ends;  if 'images' in node_output:
GiForNode ==
    /\ InRun /\ pc = "for_node"
    /\ IF posn[1] > Len(history.outputs)
       THEN pc' = "return" /\ posn' = posn
       ELSE IF history.outputs[posn[1]].hasImages
       THEN pc' = "for_image" /\ posn' = <<posn[1], 1>>
       ELSE pc' = "for_node" /\ posn' = <<posn[1] + 1, 1>>
    /\ UNCHANGED <<stack, outcome, now, quota, ws, conn, timeout, prompt_id, waitLocals,
                   waitHist, gi_prompt_id, gi_output_images, history, saved_images, files,
                   calls>>
    /\ UNCHANGED <<clientVars, mainVars>>

\* a variant of GiForImage that takes only the first image of a node
GiForImageFirstOnly ==
    /\ InRun /\ pc = "for_image"
    /\ IF posn[2] > Len(history.outputs[posn[1]].images) \/ posn[2] > 1
       THEN pc' = "for_node" /\ posn' = <<posn[1] + 1, 1>>
       ELSE pc' = "fetch" /\ posn' = posn
    /\ UNCHANGED <<stack, outcome, now, quota, ws, conn, timeout, prompt_id, waitLocals,
                   waitHist, gi_prompt_id, gi_output_images, history, saved_images, files,
                   calls>>
    /\ UNCHANGED <<clientVars, mainVars>>

\* the inner for loop takes the next image_info of node_output['images'], or ends
GiForImage ==
    /\ InRun /\ pc = "for_image"
    /\ IF posn[2] > Len(history.outputs[posn[1]].images)
       THEN pc' = "for_node" /\ posn' = <<posn[1] + 1, 1>>
       ELSE pc' = "fetch" /\ posn' = posn
    /\ UNCHANGED <<stack, outcome, now, quota, ws, conn, timeout, prompt_id, waitLocals,
                   waitHist, gi_prompt_id, gi_output_images, history, saved_images, files,
                   calls>>
    /\ UNCHANGED <<clientVars, mainVars>>

\* the body of the inner loop: filename = image_info['filename'], get_image, the
\* timestamped name, the file write, saved_images.append(output_path)
GiFetchAndSave ==
    /\ InRun /\ pc = "fetch"
    /\ LET image_info == history.outputs[posn[1]].images[posn[2]] IN
       IF ~image_info.hasFilename
       THEN RunRaises("KeyError") /\ UNCHANGED <<posn, saved_images, files, calls, sent>>
       ELSE \E resp \in ViewResponses :
           LET r == get_image(resp, image_info.filename, image_info.subfolder, "output")
               output_path == join(output_dir, new_filename(image_info.filename, now))
           IN /\ sent' = sent \cup {ViewRequest(client_id)}
              /\ IF ~r.ok
                 THEN /\ RunRaises(r.err)
                      /\ calls' = Append(calls, "get_image")
                      /\ UNCHANGED <<posn, saved_images, files>>
                 ELSE /\ files' = write_file(files, output_path, r.value)
                      /\ saved_images' = Append(saved_images, output_path)
                      /\ calls' = calls \o <<"get_image", "write">>
                      /\ posn' = <<posn[1], posn[2] + 1>>
                      /\ pc' = "for_image"
                      /\ UNCHANGED <<stack, outcome>>
    /\ UNCHANGED <<now, quota, ws, conn, timeout, prompt_id, waitLocals, waitHist,
                   gi_prompt_id, gi_output_images, history>>
    /\ UNCHANGED <<client_id, printed, mainVars>>

\* return saved_images
GiReturn ==
    /\ InRun /\ pc = "return"
    /\ stack' = <<>>
    /\ pc' = "done"
    /\ outcome' = "return"
    /\ UNCHANGED <<now, quota, ws, conn, timeout, prompt_id, waitLocals, waitHist, runVars>>
    /\ UNCHANGED <<clientVars, mainVars>>

InitRun ==
    /\ InitCommon
    /\ InitClient
    /\ timeout \in Timeouts
    /\ now = 0
    /\ stack = <<"generate_image">>
    /\ pc = "queue_prompt"
    /\ quota = MaxRunMsgs
    /\ prompt_id = ""

NextRun ==
    \/ GiQueuePrompt
    \/ WaitConnect
    \/ WaitConnectFails
    \/ WaitLoopCheck
    \/ WaitRecv
    \/ WaitRecvFails
    \/ WaitClose
    \/ WaitTimeout
    \/ WaitReturn
    \/ GiGetHistory
    \/ GiForNode
    \/ GiForImage
    \/ GiFetchAndSave
    \/ GiReturn
    \/ Tick

SpecRun == InitRun /\ [][NextRun]_vars

----------------------------------------------------------------------------
(* Properties of wait_for_completion (checked under SpecWait).             *)

Range(q) == {q[i] : i \in 1..Len(q)}

\* an 'executing' frame that is not the completion signal of pid: its node is not
\* null, or its node is null and its prompt_id is another one
OtherExecuting(m, pid) ==
    /\ m.frame = "text" /\ m.json = "object" /\ m.type = "executing" /\ m.hasData /\ m.hasNode
    /\ \/ m.node # "null"
       \/ m.hasPid /\ m.pid # pid

\* C1: wait_for_completion returns normally only after it has consumed an
\* 'executing' frame with node null and prompt_id equal to the awaited one; an
\* 'executing' frame with a non-null node, or with a null node and another
\* prompt_id, never ends the loop.
C1_ReturnsOnlyAfterSignal ==
    /\ outcome = "return" => sawSignal /\ exitBy = "break"
    /\ exitBy = "break" => sawSignal /\ IsCompletionSignal(lastMsg, prompt_id)
    /\ OtherExecuting(lastMsg, prompt_id) => exitBy \in {"none", "deadline"}

C1_Witness ==
    /\ outcome = "return" /\ sawSignal
    /\ executedLog # <<>>
    /\ quota = 0

\* C2 (as claimed): once the completion signal of the job has been consumed,
\* the call ends by returning normally, never by TimeoutError, also when the
\* signal was delivered after the deadline.
C2_SignalEndsNormally ==
    sawSignal /\ outcome # "running" => outcome = "return"

C4_ClosedOnEveryExit ==
    outcome # "running" => conn # "open" /\ ws = "none"

\* the nodes of the logged 'executed' frames, each once, in first-seen order
RECURSIVE FirstSeenNodes(_)
FirstSeenNodes(log) ==
    IF log = <<>> THEN <<>>
    ELSE LET rest == FirstSeenNodes(SubSeq(log, 1, Len(log) - 1))
             n == log[Len(log)].node
         IN IF n \in Range(rest) THEN rest ELSE Append(rest, n)

FirstEventOf(log, n) ==
    log[CHOOSE i \in 1..Len(log) : log[i].node = n /\ \A j \in 1..(i - 1) : log[j].node # n]

LastEventOf(log, n) ==
    log[CHOOSE i \in 1..Len(log) : log[i].node = n /\ \A j \in (i + 1)..Len(log) : log[j].node # n]

\* C5 (as claimed): after the completion signal the mapping holds one artifact
\* reference per 'executed' frame with image output, and the first-seen
\* reference of a node is not replaced by later frames or later images.
C5_OnePerEventFirstSeen ==
    sawSignal =>
        /\ Len(output_images) = Len(executedLog)
        /\ \A n \in DictKeys(output_images) :
              DictGet(output_images, n) = Head(FirstEventOf(executedLog, n).images)

\* C5 (amended): after the completion signal the mapping holds exactly one
\* artifact reference per node that had an 'executed' frame with image output,
\* the nodes in first-seen order, and the reference of a node is the last image
\* of the latest such frame of that node.
C5_OnePerNodeLastSeen ==
    sawSignal =>
        LET nodes == FirstSeenNodes(executedLog) IN
        /\ Len(output_images) = Len(nodes)
        /\ \A i \in 1..Len(nodes) :
              /\ output_images[i].key = nodes[i]
              /\ LET ev == LastEventOf(executedLog, nodes[i])
                 IN output_images[i].val = ev.images[Len(ev.images)]

C5_Witness ==
    /\ outcome = "return" /\ sawSignal
    /\ Len(executedLog) = 2
    /\ executedLog[1].node = executedLog[2].node
    /\ executedLog[1].images = <<"a", "b">>
    /\ executedLog[2].images = <<"a">>

IsBinary(m) == m.frame = "binary"

IsProgress(m) == m.frame = "text" /\ m.json = "object" /\ m.type = "progress"

IsOtherType(m) ==
    m.frame = "text" /\ m.json = "object"
    /\ m.type \notin {"absent", "executing", "progress", "executed"}

IsExecutedWithoutImages(m) ==
    /\ m.frame = "text" /\ m.json = "object" /\ m.type = "executed"
    /\ ~(m.hasData /\ m.hasOutput /\ m.hasImages /\ m.images # <<>>)

\* the frames the loop body cannot handle: not JSON, not a dict, or a key it reads is missing
Malformed(m) ==
    /\ m.frame = "text"
    /\ \/ m.json # "object"
       \/ m.type = "absent"
       \/ m.type = "executing" /\ (~m.hasData \/ ~m.hasNode \/ (m.node = "null" /\ ~m.hasPid))
       \/ m.type = "progress" /\ (~m.hasData \/ ~m.hasValue)
       \/ m.type = "executed" /\ ~m.hasData
       \/ m.type = "executed" /\ m.hasOutput /\ m.hasImages /\ m.images # <<>> /\ ~m.hasNode

\* a step of the loop that consumes a frame
RecvStep == quota' = quota - 1

\* C6 (as claimed): a 'progress' frame, a frame of any other type, an
\* 'executed' frame without image output and a binary frame leave the mapping
\* unchanged and never end the loop; only 'executed' frames with images change
\* the mapping, and only the completion signal or the deadline ends the loop.
C6_OnlySignalOrDeadlineEnds ==
    [][/\ RecvStep /\ (IsBinary(lastMsg') \/ IsProgress(lastMsg') \/ IsOtherType(lastMsg')
                       \/ IsExecutedWithoutImages(lastMsg'))
          => output_images' = output_images /\ pc' = "while" /\ exitBy' = exitBy
       /\ output_images' # output_images => RecvStep /\ HasImageOutput(lastMsg')
       /\ exitBy' # exitBy =>
             \/ exitBy' = "break" /\ RecvStep /\ IsCompletionSignal(lastMsg', prompt_id)
             \/ exitBy' = "deadline" /\ ~RecvStep /\ now - start_time >= timeout
      ]_vars

\* C6 (amended): a binary frame, a 'progress' frame that carries data with value
\* and max, a frame of any other type, and an 'executed' frame that carries data
\* but no image output leave the mapping unchanged and never end the loop; only
\* 'executed' frames with images change the mapping; the loop ends only by the
\* completion signal, by the deadline, or by an exception: ws.recv() failing or
\* a frame the body cannot handle (not JSON, not a dict, a missing key).
C6_FrameEffects ==
    [][/\ RecvStep /\ ~Malformed(lastMsg')
               /\ (IsBinary(lastMsg') \/ IsProgress(lastMsg') \/ IsOtherType(lastMsg')
                   \/ IsExecutedWithoutImages(lastMsg'))
          => output_images' = output_images /\ pc' = "while" /\ exitBy' = exitBy
       /\ output_images' # output_images => RecvStep /\ HasImageOutput(lastMsg')
       /\ exitBy' # exitBy =>
             \/ exitBy' = "break" /\ RecvStep /\ IsCompletionSignal(lastMsg', prompt_id)
             \/ exitBy' = "deadline" /\ ~RecvStep /\ now - start_time >= timeout
             \/ exitBy' = "raise" /\ (~RecvStep \/ Malformed(lastMsg'))
       /\ RecvStep /\ Malformed(lastMsg') => exitBy' = "raise" /\ output_images' = output_images
      ]_vars

C6_Witness ==
    /\ pc = "while" /\ exitBy = "none"
    /\ IsProgress(lastMsg) /\ ~Malformed(lastMsg)
    /\ Len(output_images) = 2

----------------------------------------------------------------------------
(* Properties of generate_image (checked under SpecRun).                   *)

Loaded == history.net = "ok" /\ history.json = "object"

\* the artifact references of the history entry of pid: the images of the node
\* outputs that have the key 'images', nodes in the order of the response, images
\* in the order listed
RECURSIVE RefsOf(_)
RefsOf(outputs) ==
    IF outputs = <<>> THEN <<>>
    ELSE (IF Head(outputs).hasImages THEN Head(outputs).images ELSE <<>>) \o RefsOf(Tail(outputs))

Refs(h, pid) == IF h.key = pid /\ h.hasOutputs THEN RefsOf(h.outputs) ELSE <<>>

Made(c) == c \in Range(calls)

\* C7: generate_image submits, then waits, then queries the history, then
\* fetches and writes artifact by artifact: the history is queried only after
\* wait_for_completion has returned normally, and when queue_prompt fails or
\* wait_for_completion fails (TimeoutError included) there is no history query,
\* no artifact fetch and no file write.
C7_StepOrder ==
    /\ \A i \in 1..Len(calls) :
          /\ calls[i] = "queue_prompt" => i = 1
          /\ calls[i] = "wait_for_completion" => i = 2 /\ calls[1] = "queue_prompt"
          /\ calls[i] = "wait_ok" => i = 3 /\ calls[2] = "wait_for_completion"
          /\ calls[i] = "get_history" => i = 4 /\ calls[3] = "wait_ok"
          /\ calls[i] = "get_image" => i > 4 /\ calls[i - 1] \in {"get_history", "write"}
          /\ calls[i] = "write" => i > 5 /\ calls[i - 1] = "get_image"
    /\ outcome \notin {"running", "return"} /\ ~Made("wait_ok")
          => ~Made("get_history") /\ ~Made("get_image") /\ ~Made("write")
    /\ outcome = "TimeoutError" => ~Made("wait_ok")
    /\ ~Made("wait_ok") => history = NoHistory /\ files = {} /\ saved_images = <<>>
    /\ pc \in {"get_history", "for_node", "for_image", "fetch", "return"}
          => Made("wait_ok") /\ conn = "closed"
    /\ Len(saved_images) > 0 => Loaded

C7_Witness ==
    /\ outcome = "return"
    /\ Len(calls) = 8
    /\ Len(saved_images) = 2
    /\ calls[7] = "get_image" /\ calls[8] = "write"

C9_OneFilePerRef ==
    outcome = "return" => Cardinality(files) = Len(Refs(history, gi_prompt_id))

\* the history holds no image output for pid: pid is not a key of the response,
\* its outputs mapping is empty, or no node output has the key 'images'
NoImageOutputs(h, pid) ==
    \/ h.key # pid
    \/ h.hasOutputs /\ \A i \in 1..Len(h.outputs) : ~h.outputs[i].hasImages

\* C10: when the history response holds no image output for the job,
\* generate_image does not fail: it fetches nothing, writes nothing, and what it
\* returns is the empty list.
C10_EmptyWhenNoImages ==
    Loaded /\ NoImageOutputs(history, gi_prompt_id) =>
        /\ outcome \in {"running", "return"}
        /\ saved_images = <<>>
        /\ files = {}
        /\ ~Made("get_image") /\ ~Made("write")
        /\ pc \in {"for_node", "return", "done"}

C10_Witness ==
    /\ outcome = "return"
    /\ Loaded /\ history.key = gi_prompt_id
    /\ Len(history.outputs) = 2
    /\ NoImageOutputs(history, gi_prompt_id)
    /\ saved_images = <<>>

----------------------------------------------------------------------------
(* Properties of generate_image, continued (checked under SpecRun).        *)

\* the body of a response of GET /view with a status other than 200 has been
\* written to a file of the output directory
ErrorPageSaved == \E f \in files : f.data.kind = "errorpage"

\* C11 (as claimed): generate_image has no partial success: when a fetch of an
\* artifact fails, by a network failure or by a non-2xx response of GET /view,
\* the call fails and returns no list of paths, and the files written for the
\* earlier artifacts stay in the output directory.
C11_FetchFailureFailsRun ==
    /\ ErrorPageSaved => outcome # "return"
    /\ outcome = "RequestException" /\ Made("write") => files # {}

Count(q, x) == Cardinality({i \in 1..Len(q) : q[i] = x})

\* the state of the job as the client sees it: Created until queue_prompt has been
\* called, Failed when a call other than the final check of the wait has raised,
\* Completed once wait_for_completion has returned, TimedOut when the wait has
\* closed its connection and ended without returning, Submitted otherwise
Lifecycle ==
    CASE ~Made("queue_prompt") -> "Created"
      [] Made("wait_ok") -> "Completed"
      [] conn = "closed" /\ pc # "final" -> "TimedOut"
      [] outcome # "running" -> "Failed"
      [] OTHER -> "Submitted"

LifecycleEdges ==
    {<<"Created", "Submitted">>, <<"Created", "Failed">>, <<"Submitted", "Completed">>,
     <<"Submitted", "TimedOut">>, <<"Submitted", "Failed">>}

\* C12: the job of a generate_image call goes from Created to Submitted and from
\* there to Completed or to TimedOut (or it fails); there is one submission and
\* one wait per call, the wait is for the id the submission returned, and after
\* a timeout or a failure the call makes no further request: it neither waits
\* again nor queries the history.
C12_Lifecycle ==
    [][/\ Lifecycle' # Lifecycle => <<Lifecycle, Lifecycle'>> \in LifecycleEdges
       /\ Count(calls', "queue_prompt") <= 1
       /\ Count(calls', "wait_for_completion") <= 1
       /\ prompt_id' # prompt_id =>
             /\ Lifecycle = "Created" /\ Lifecycle' = "Submitted"
             /\ prompt_id' = gi_prompt_id'
       /\ conn' = "open" /\ conn # "open" => Lifecycle = "Submitted" /\ conn = "none"
       /\ Lifecycle \in {"TimedOut", "Failed"} =>
             /\ calls' = calls /\ sent' = sent /\ conn' = conn
             /\ outcome' = outcome /\ outcome # "running"
       /\ Lifecycle = "Completed" =>
             /\ Count(calls', "queue_prompt") = Count(calls, "queue_prompt")
             /\ Count(calls', "wait_for_completion") = Count(calls, "wait_for_completion")
             /\ conn' = conn /\ prompt_id' = prompt_id
      ]_vars

C12_Witness ==
    /\ Lifecycle = "TimedOut"
    /\ outcome = "TimeoutError"
    /\ calls = <<"queue_prompt", "wait_for_completion">>
    /\ prompt_id = gi_prompt_id /\ prompt_id \in SubmitIds

----------------------------------------------------------------------------
(* upload_image, as a function of the local file system and the response.  *)

\* os.path.basename
basename(path) == SubSeq(path, LastIndexOf(path, "/") + 1, Len(path))

\* POST /upload/image: isJsonType says whether the content-type header holds
\* 'application/json'; hasName, hasSubfolder: the keys of the JSON object
UploadResponse(net, status, isJsonType, json, hasName, name, hasSubfolder, subfolder) ==
    [net |-> net, status |-> status, isJsonType |-> isJsonType, json |-> json,
     hasName |-> hasName, name |-> name, hasSubfolder |-> hasSubfolder,
     subfolder |-> subfolder]

ServerName == <<"s", ".", "p">>

UploadResponses ==
    {UploadResponse("error", 0, FALSE, "invalid", FALSE, <<>>, FALSE, ""),
     UploadResponse("ok", 304, FALSE, "invalid", FALSE, <<>>, FALSE, ""),
     UploadResponse("ok", 404, FALSE, "invalid", FALSE, <<>>, FALSE, ""),
     UploadResponse("ok", 500, TRUE, "object", FALSE, <<>>, FALSE, ""),
     UploadResponse("ok", 200, FALSE, "invalid", FALSE, <<>>, FALSE, ""),
     UploadResponse("ok", 200, FALSE, "object", TRUE, ServerName, TRUE, "srv"),
     UploadResponse("ok", 200, TRUE, "invalid", FALSE, <<>>, FALSE, ""),
     UploadResponse("ok", 200, TRUE, "nonobject", FALSE, <<>>, FALSE, ""),
     UploadResponse("ok", 200, TRUE, "object", FALSE, <<>>, FALSE, ""),
     UploadResponse("ok", 200, TRUE, "object", TRUE, ServerName, FALSE, ""),
     UploadResponse("ok", 201, TRUE, "object", TRUE, ServerName, TRUE, "srv")}

\* the dict upload_image returns
Uploaded(filename, subfolder) ==
    [filename |-> filename, subfolder |-> subfolder, type |-> "input"]

\* the result of upload_image: requested says whether the POST was made
UploadResult(ok, value, err, requested) ==
    [ok |-> ok, value |-> value, err |-> err, requested |-> requested]

UploadFails(e, requested) == UploadResult(FALSE, Uploaded(<<>>, ""), e, requested)

\* upload_image(image_path, subfolder): exists is os.path.exists(image_path), resp
\* the response, jre whether the JSON error of requests is a RequestException
upload_image(image_path, subfolder, exists, resp, jre) ==
    IF ~exists THEN UploadFails("FileNotFoundError", FALSE)
    ELSE IF resp.net = "error" THEN UploadFails("RequestException", TRUE)
    ELSE IF resp.status >= 400 THEN UploadFails("RequestException", TRUE)
    ELSE IF ~resp.isJsonType
    THEN UploadResult(TRUE, Uploaded(basename(image_path), subfolder), "none", TRUE)
    ELSE IF resp.json = "invalid"
    THEN IF jre THEN UploadFails("RequestException", TRUE)
         ELSE UploadResult(TRUE, Uploaded(basename(image_path), subfolder), "none", TRUE)
    ELSE IF resp.json = "nonobject" THEN UploadFails("AttributeError", TRUE)
    ELSE UploadResult(TRUE,
                      Uploaded(IF resp.hasName THEN resp.name ELSE basename(image_path),
                               IF resp.hasSubfolder THEN resp.subfolder ELSE subfolder),
                      "none", TRUE)

\* what a call upload_image(image_path) of a patch helper can give
UploadResults(image_path) ==
    {upload_image(image_path, "", exists, resp, jre) :
        exists \in BOOLEAN, resp \in UploadResponses, jre \in JsonErrorIsRequestException}

----------------------------------------------------------------------------
(* The patch helpers.  A helper changes the workflow dict in place; its    *)
(* result is the exception raised ("none": it returned), the workflow      *)
(* after the call and the results of the upload_image calls it made.       *)

Patched(err, wf, ups) == [err |-> err, workflow |-> wf, ups |-> ups]

\* workflow[node_id]["inputs"][key] = val
SetInput(wf, node_id, key, val) ==
    [wf EXCEPT ![node_id].inputs = [@ EXCEPT ![key] = Field(TRUE, val)]]

\* a variant of PatchImage that uploads before it looks for the node
PatchImageUploadFirst(r, hasClient, image_path, node_id, up) ==
    IF r.err # "none" \/ image_path = <<>> THEN r
    ELSE IF hasClient /\ ~up.ok
    THEN Patched(up.err, r.workflow, Append(r.ups, [path |-> image_path, result |-> up]))
    ELSE LET ups == IF hasClient
                    THEN Append(r.ups, [path |-> image_path, result |-> up])
                    ELSE r.ups
         IN IF ~r.workflow[node_id].present THEN Patched("none", r.workflow, ups)
            ELSE IF ~r.workflow[node_id].hasInputs THEN Patched("KeyError", r.workflow, ups)
            ELSE Patched("none",
                         SetInput(r.workflow, node_id, "image",
                                  IF hasClient THEN up.value.filename
                                  ELSE basename(image_path)),
                         ups)

\* a variant of PatchImage that always sets the local basename
PatchImageBasename(r, hasClient, image_path, node_id, up) ==
    IF r.err # "none" \/ image_path = <<>> \/ ~r.workflow[node_id].present THEN r
    ELSE IF hasClient /\ ~up.ok
    THEN Patched(up.err, r.workflow, Append(r.ups, [path |-> image_path, result |-> up]))
    ELSE LET ups == IF hasClient
                    THEN Append(r.ups, [path |-> image_path, result |-> up])
                    ELSE r.ups
         IN IF ~r.workflow[node_id].hasInputs THEN Patched("KeyError", r.workflow, ups)
            ELSE Patched("none", SetInput(r.workflow, node_id, "image", basename(image_path)),
                         ups)

\* if image_path and node_id in workflow: if client: result = client.upload_image(image_path);
\* workflow[node_id]["inputs"]["image"] = result['filename']
\* else: workflow[node_id]["inputs"]["image"] = os.path.basename(image_path)
\* r is the result of the statements before, up the result of the upload_image call
PatchImage(r, hasClient, image_path, node_id, up) ==
    IF r.err # "none" \/ image_path = <<>> \/ ~r.workflow[node_id].present THEN r
    ELSE IF hasClient /\ ~up.ok
    THEN Patched(up.err, r.workflow, Append(r.ups, [path |-> image_path, result |-> up]))
    ELSE LET ups == IF hasClient
                    THEN Append(r.ups, [path |-> image_path, result |-> up])
                    ELSE r.ups
         IN IF ~r.workflow[node_id].hasInputs THEN Patched("KeyError", r.workflow, ups)
            ELSE Patched("none",
                         SetInput(r.workflow, node_id, "image",
                                  IF hasClient THEN up.value.filename
                                  ELSE basename(image_path)),
                         ups)

\* openpose-workflow.py
update_workflow_image(wf, hasClient, image_path, node_id, up) ==
    PatchImage(Patched("none", wf, <<>>), hasClient, image_path, node_id, up)

\* qwen-mutli-workflow.py: nodes "78", "106" and "108", one after the other
update_workflow_images(wf, hasClient, image1_path, image2_path, image3_path, up1, up2, up3) ==
    PatchImage(PatchImage(PatchImage(Patched("none", wf, <<>>), hasClient, image1_path, "78", up1),
                          hasClient, image2_path, "106", up2),
               hasClient, image3_path, "108", up3)

\* if "111" in workflow: workflow["111"]["inputs"]["prompt"] = prompt
update_workflow_prompt(wf, prompt) ==
    IF ~wf["111"].present THEN Patched("none", wf, <<>>)
    ELSE IF ~wf["111"].hasInputs THEN Patched("KeyError", wf, <<>>)
    ELSE Patched("none", SetInput(wf, "111", "prompt", prompt), <<>>)

\* "inputs" in workflow[node_id] and key in workflow[node_id]["inputs"]
HasInput(wf, node_id, key) == wf[node_id].hasInputs /\ wf[node_id].inputs[key].has

\* lora_name = "" stands for None and for the empty string
update_workflow_lora(wf, lora_name, node_id) ==
    IF lora_name # "" /\ wf[node_id].present
    THEN IF HasInput(wf, node_id, "lora_name")
         THEN Patched("none", SetInput(wf, node_id, "lora_name", lora_name), <<>>)
         ELSE Patched("none", wf, <<>>)
    ELSE Patched("none", wf, <<>>)

\* seed is Field(FALSE, 0) for None; random_seed is what random.randint(0, 2**32 - 1) gave
update_workflow_seed(wf, seed, node_id, random_seed) ==
    IF seed.has /\ wf[node_id].present
    THEN IF HasInput(wf, node_id, "seed")
         THEN Patched("none", SetInput(wf, node_id, "seed", seed.val), <<>>)
         ELSE Patched("none", wf, <<>>)
    ELSE IF ~seed.has
    THEN IF wf[node_id].present /\ HasInput(wf, node_id, "seed")
         THEN Patched("none", SetInput(wf, node_id, "seed", random_seed), <<>>)
         ELSE Patched("none", wf, <<>>)
    ELSE Patched("none", wf, <<>>)

----------------------------------------------------------------------------
(* A patch helper called on its own, MaxPatches times with the same        *)
(* arguments, on a workflow of Workflows.                                  *)

MaxPatches == 2

ImagePath1 == <<"i", "/", "a", ".", "p">>
ImagePath2 == <<"b", ".", "p">>
ImagePath3 == <<"i", "/", "c">>

NoSeed == Field(FALSE, 0)

\* random.randint(0, 2**32 - 1): the least value and a large one
RandomSeeds == {0, 2147483647}

PatchArgs(helper, hasClient, paths, node_id, prompt, lora_name, seed) ==
    [helper |-> helper, hasClient |-> hasClient, paths |-> paths, node_id |-> node_id,
     prompt |-> prompt, lora_name |-> lora_name, seed |-> seed]

PatchCalls ==
    {PatchArgs("update_workflow_image", c, <<p>>, n, "", "", NoSeed) :
        c \in BOOLEAN, p \in {<<>>, ImagePath1}, n \in {"1", "78"}}
    \cup {PatchArgs("update_workflow_images", c, <<p1, p2, p3>>, "", "", "", NoSeed) :
        c \in BOOLEAN, p1 \in {<<>>, ImagePath1}, p2 \in {<<>>, ImagePath2},
        p3 \in {<<>>, ImagePath3}}
    \cup {PatchArgs("update_workflow_prompt", FALSE, <<>>, "111", "new prompt", "", NoSeed)}
    \cup {PatchArgs("update_workflow_lora", FALSE, <<>>, "89", "", l, NoSeed) :
        l \in {"", "new lora"}}
    \cup {PatchArgs("update_workflow_seed", FALSE, <<>>, n, "", "", s) :
        n \in {"3", "89"}, s \in {NoSeed, Field(TRUE, 0), Field(TRUE, 5)}}

\* the results upload_image can give when the helper calls it with path
UploadChoices(hasClient, path) ==
    IF hasClient /\ path # <<>> THEN UploadResults(path)
    ELSE {UploadFails("none", FALSE)}

RECURSIVE PathsOf(_)
PathsOf(ups) == IF ups = <<>> THEN <<>> ELSE <<Head(ups).path>> \o PathsOf(Tail(ups))

\* the call has been made with result r: the workflow is changed in place, the
\* uploads have been requested, an exception ends the script
PatchDone(r) ==
    /\ workflow' = r.workflow
    /\ retval' = r
    /\ uploaded' = uploaded \o PathsOf(r.ups)
    /\ sent' = sent \cup {UploadRequest(client_id) : i \in {j \in 1..Len(r.ups) : r.ups[j].result.requested}}
    /\ calls' = Append(calls, args.helper)
    /\ IF r.err = "none"
       THEN UNCHANGED <<stack, pc, outcome>>
       ELSE stack' = <<>> /\ pc' = "done" /\ outcome' = r.err
    /\ UNCHANGED <<now, quota, ws, conn, timeout, prompt_id, waitLocals, waitHist,
                   gi_prompt_id, gi_output_images, history, posn, saved_images, files,
                   client_id, printed, main_pc, exit_code, args, env, signal>>

CanPatch(helper) == stack = <<helper>> /\ args.helper = helper /\ Len(calls) < MaxPatches

UpdateWorkflowImage ==
    /\ CanPatch("update_workflow_image")
    /\ \E up \in UploadChoices(args.hasClient, args.paths[1]) :
        PatchDone(update_workflow_image(workflow, args.hasClient, args.paths[1], args.node_id, up))

UpdateWorkflowImages ==
    /\ CanPatch("update_workflow_images")
    /\ \E up1 \in UploadChoices(args.hasClient, args.paths[1]),
          up2 \in UploadChoices(args.hasClient, args.paths[2]),
          up3 \in UploadChoices(args.hasClient, args.paths[3]) :
        PatchDone(update_workflow_images(workflow, args.hasClient, args.paths[1], args.paths[2],
                                         args.paths[3], up1, up2, up3))

UpdateWorkflowPrompt ==
    /\ CanPatch("update_workflow_prompt")
    /\ PatchDone(update_workflow_prompt(workflow, args.prompt))

UpdateWorkflowLora ==
    /\ CanPatch("update_workflow_lora")
    /\ PatchDone(update_workflow_lora(workflow, args.lora_name, args.node_id))

UpdateWorkflowSeed ==
    /\ CanPatch("update_workflow_seed")
    /\ \E random_seed \in RandomSeeds :
        PatchDone(update_workflow_seed(workflow, args.seed, args.node_id, random_seed))

InitPatch ==
    /\ InitCommon
    /\ client_id = "c1"
    /\ main_pc = "none"
    /\ workflow \in Workflows
    /\ args \in PatchCalls
    /\ retval = Patched("none", workflow, <<>>)
    /\ stack = <<args.helper>>
    /\ pc = "call"
    /\ quota = 0
    /\ timeout = 0
    /\ now = 0
    /\ prompt_id = ""

NextPatch ==
    \/ UpdateWorkflowImage
    \/ UpdateWorkflowImages
    \/ UpdateWorkflowPrompt
    \/ UpdateWorkflowLora
    \/ UpdateWorkflowSeed

SpecPatch == InitPatch /\ [][NextPatch]_vars

----------------------------------------------------------------------------
(* Properties of the patch helpers (checked under SpecPatch).              *)

IsImagePatch(a) == a.helper \in {"update_workflow_image", "update_workflow_images"}

\* the node the i-th image path of the call is for
ImageTarget(a, i) ==
    IF a.helper = "update_workflow_image" THEN a.node_id
    ELSE <<"78", "106", "108">>[i]

\* the nodes the call addresses
Targets(a) ==
    IF IsImagePatch(a) THEN {ImageTarget(a, i) : i \in 1..Len(a.paths)}
    ELSE {a.node_id}

\* the upload_image calls of the step
NewUploads == SubSeq(uploaded', Len(uploaded) + 1, Len(uploaded'))

\* C13: a patch helper called on a workflow that lacks the node it addresses
\* leaves the workflow as it is and raises nothing; an image patch calls
\* upload_image for no path whose node is absent, also when a client is passed,
\* and leaves that node absent; the same holds when the call is made again.
C13_AbsentNodeNoOp ==
    [][calls' # calls =>
          /\ (\A n \in Targets(args) : ~workflow[n].present) =>
                /\ workflow' = workflow
                /\ outcome' = "running"
                /\ uploaded' = uploaded /\ sent' = sent
          /\ IsImagePatch(args) =>
                \A i \in 1..Len(args.paths) :
                    ~workflow[ImageTarget(args, i)].present =>
                        /\ workflow'[ImageTarget(args, i)] = AbsentNode
                        /\ args.paths[i] \notin Range(NewUploads)
      ]_vars

C13_Witness ==
    /\ Len(calls) = MaxPatches
    /\ args.helper = "update_workflow_image" /\ args.hasClient /\ args.paths[1] = ImagePath1
    /\ ~workflow[args.node_id].present
    /\ workflow["3"].present /\ workflow["3"].inputs = OldInputs
    /\ outcome = "running" /\ uploaded = <<>> /\ sent = {}

\* the file name an image patch is to set for its i-th path: with a client what the
\* upload_image call for that path returned, else the local basename
NewName(a, r, i) ==
    IF a.hasClient
    THEN LET k == CHOOSE j \in 1..Len(r.ups) : r.ups[j].path = a.paths[i]
         IN r.ups[k].result.value.filename
    ELSE basename(a.paths[i])

\* the i-th upload of the call has returned (or there is no client to upload with)
UploadReturned(a, r, i) ==
    a.hasClient => \E j \in 1..Len(r.ups) : r.ups[j].path = a.paths[i] /\ r.ups[j].result.ok

\* the i-th image path of the call is given and its node is present
Addressed(a, wf, i) == a.paths[i] # <<>> /\ wf[ImageTarget(a, i)].present

\* the node with its inputs.image set to name, everything else as it was
WithImage(node, name) == [node EXCEPT !.inputs = [@ EXCEPT !.image = Field(TRUE, name)]]

\* the effect of an image patch on the workflow: the addressed nodes of Good get the
\* new name, every other node and every other field stays as it was
ImagePatched(Good) ==
    /\ \A i \in Good :
          workflow'[ImageTarget(args, i)] =
              WithImage(workflow[ImageTarget(args, i)], NewName(args, retval', i))
    /\ \A n \in WorkflowNodeIds \ {ImageTarget(args, i) : i \in Good} :
          workflow'[n] = workflow[n]

\* C14 (as claimed): when the target node is present, the image patch sets its
\* inputs.image to the new file name (the local basename without a client, the
\* name upload_image returned with one) and changes nothing else.
C14_PresentNodeImageSet ==
    [][calls' # calls /\ IsImagePatch(args)
       /\ (\A i \in 1..Len(args.paths) :
              Addressed(args, workflow, i) => UploadReturned(args, retval', i)) =>
          /\ outcome' = "running"
          /\ ImagePatched({i \in 1..Len(args.paths) : Addressed(args, workflow, i)})
      ]_vars

\* C14 (amended): when the target node is present and holds the key 'inputs', the
\* image patch sets its inputs.image to the new file name (the local basename
\* without a client, the name upload_image returned with one) and changes nothing
\* else; a present target node without the key 'inputs' makes it raise KeyError.
C14_PresentNodeWithInputsImageSet ==
    [][calls' # calls /\ IsImagePatch(args)
       /\ (\A i \in 1..Len(args.paths) :
              Addressed(args, workflow, i) => UploadReturned(args, retval', i)) =>
          IF \A i \in 1..Len(args.paths) :
                Addressed(args, workflow, i) => workflow[ImageTarget(args, i)].hasInputs
          THEN /\ outcome' = "running"
               /\ ImagePatched({i \in 1..Len(args.paths) : Addressed(args, workflow, i)})
          ELSE outcome' = "KeyError"
      ]_vars

C14_Witness ==
    /\ Len(calls) = 1 /\ outcome = "running"
    /\ args.helper = "update_workflow_image" /\ args.hasClient /\ args.node_id = "1"
    /\ uploaded = <<ImagePath1>>
    /\ workflow["1"].inputs.image = Field(TRUE, ServerName)
    /\ workflow["1"].inputs.prompt = Field(TRUE, "old prompt")
    /\ workflow["3"].inputs = OldInputs

----------------------------------------------------------------------------
(* queue_prompt called on its own, with any response of POST /prompt.      *)

\* status codes requests hands to the caller: 2xx, a 3xx it does not follow, 4xx, 5xx
Statuses == {200, 202, 304, 400, 500}

\* the values of 'prompt_id' a body can hold
BodyPromptIds == {"p1", ""}

ErrorDetails ==
    {ErrorDetail(TRUE, TRUE, "bad node", n, b) : n \in {"absent", "ok", "malformed"}, b \in BOOLEAN}
    \cup {ErrorDetail(TRUE, FALSE, "", "absent", FALSE), ErrorDetail(FALSE, FALSE, "", "absent", FALSE)}

NodeErrorsOnly == {ErrorDetail(FALSE, FALSE, "", n, FALSE) : n \in {"absent", "ok", "malformed"}}

\* the bodies: not JSON, JSON but no dict, or a dict with or without the keys
\* 'prompt_id', 'error' and 'node_errors'
AllSubmitResponses ==
    {SubmitResponse("error", 0, "invalid", FALSE, "", FALSE)}
    \cup {SubmitResponse("ok", s, j, FALSE, "", FALSE) : s \in Statuses, j \in {"invalid", "nonobject"}}
    \cup {[SubmitResponse("ok", s, "object", FALSE, "", e) EXCEPT !.detail = d] :
             s \in Statuses, e \in {TRUE}, d \in ErrorDetails}
    \cup {[SubmitResponse("ok", s, "object", FALSE, "", e) EXCEPT !.detail = d] :
             s \in Statuses, e \in {FALSE}, d \in NodeErrorsOnly}
    \cup {SubmitResponse("ok", s, "object", TRUE, p, e) :
             s \in Statuses, p \in BodyPromptIds, e \in BOOLEAN}

\* prompt_id = client.queue_prompt(workflow)
QueuePrompt ==
    /\ stack = <<"queue_prompt">> /\ pc = "call"
    /\ \E resp \in AllSubmitResponses, jre \in JsonErrorIsRequestException :
        LET r == queue_prompt(resp) IN
        /\ env' = Env(TRUE, resp, jre)
        /\ retval' = r
        /\ outcome' = IF r.ok THEN "return" ELSE r.err
        /\ sent' = sent \cup {PromptRequest(client_id)}
        /\ printed' = printed \cup QueuePromptPrints(resp, jre)
    /\ stack' = <<>>
    /\ pc' = "done"
    /\ UNCHANGED <<now, quota, ws, conn, timeout, prompt_id, waitLocals, waitHist, runVars,
                   client_id, main_pc, workflow, exit_code, uploaded, args, signal>>

InitSubmit ==
    /\ InitCommon
    /\ InitClient
    /\ stack = <<"queue_prompt">>
    /\ pc = "call"
    /\ quota = 0
    /\ timeout = 0
    /\ now = 0
    /\ prompt_id = ""

NextSubmit == QueuePrompt

SpecSubmit == InitSubmit /\ [][NextSubmit]_vars

----------------------------------------------------------------------------
(* Properties of queue_prompt (checked under SpecSubmit).                  *)

Is2xx(status) == status \in 200..299

FailedWith == {"RequestException", "ValueError", "KeyError"}

Surfaced(message) == {l \in printed : message \in l.mentions}

\* C16: a response of POST /prompt with a non-2xx status and a body
\* {"error": {"message": M}} makes queue_prompt fail, and M is in what it prints
\* (in the text of the response, or in the breakdown after it); the exception
\* goes on to the caller after the breakdown, also when the body is no JSON.
C16_ErrorMessageSurfaced ==
    outcome # "running" /\ env.resp.net = "ok" /\ ~Is2xx(env.resp.status) =>
        /\ env.resp.json = "object" /\ ~env.resp.hasPromptId /\ env.resp.hasError
           /\ env.resp.detail.isDict /\ env.resp.detail.hasMessage
           /\ (env.resp.detail.nodeErrors # "malformed" \/ ~env.resp.detail.beyond1000) =>
              /\ outcome \in FailedWith
              /\ Surfaced(env.resp.detail.message) # {}
        /\ env.resp.json # "object" => outcome \in FailedWith
        /\ env.resp.status >= 400 =>
              /\ outcome = "RequestException"
              /\ Line("Response text:", TextMentions(env.resp)) \in printed

C16_Witness ==
    /\ outcome = "RequestException" /\ env.resp.status = 400
    /\ env.resp.detail = ErrorDetail(TRUE, TRUE, "bad node", "absent", TRUE)
    /\ Surfaced("bad node") = {Line("Error:", {"bad node"})}

----------------------------------------------------------------------------
(* upload_image called on its own.                                         *)

UploadArgs(image_path, subfolder) ==
    [helper |-> "upload_image", image_path |-> image_path, subfolder |-> subfolder]

UploadCalls == {UploadArgs(p, s) : p \in {ImagePath1, ImagePath2}, s \in {"", "sub"}}

\* result = client.upload_image(image_path, subfolder)
UploadImage ==
    /\ stack = <<"upload_image">> /\ pc = "call"
    /\ \E exists \in BOOLEAN, resp \in UploadResponses, jre \in JsonErrorIsRequestException :
        LET r == upload_image(args.image_path, args.subfolder, exists, resp, jre) IN
        /\ env' = Env(exists, resp, jre)
        /\ retval' = r
        /\ outcome' = IF r.ok THEN "return" ELSE r.err
        /\ sent' = IF r.requested THEN sent \cup {UploadRequest(client_id)} ELSE sent
    /\ uploaded' = Append(uploaded, args.image_path)
    /\ stack' = <<>>
    /\ pc' = "done"
    /\ UNCHANGED <<now, quota, ws, conn, timeout, prompt_id, waitLocals, waitHist, runVars,
                   client_id, printed, main_pc, workflow, exit_code, args, signal>>

InitUpload ==
    /\ InitCommon
    /\ client_id = "c1"
    /\ main_pc = "none"
    /\ workflow = EmptyWorkflow
    /\ args \in UploadCalls
    /\ retval = UploadFails("none", FALSE)
    /\ stack = <<"upload_image">>
    /\ pc = "call"
    /\ quota = 0
    /\ timeout = 0
    /\ now = 0
    /\ prompt_id = ""

NextUpload == UploadImage

SpecUpload == InitUpload /\ [][NextUpload]_vars

----------------------------------------------------------------------------
(* Properties of upload_image (checked under SpecUpload).                  *)

\* the response is JSON: the content type says so and the body can be decoded
IsJson(resp) == resp.isJsonType /\ resp.json # "invalid"

\* C17 (as claimed): upload_image fails with FileNotFoundError, before any
\* request, when the local file is missing; it fails with the error of the
\* request on a non-2xx response; on a 2xx response that is no JSON (by its
\* content type, or because the body cannot be decoded) it does not fail and
\* returns the local basename with the subfolder asked for; on a 2xx JSON
\* response it returns the name and the subfolder the server assigned.
C17_UploadOutcomes ==
    outcome # "running" =>
        /\ ~env.exists => outcome = "FileNotFoundError" /\ sent = {}
        /\ env.exists /\ env.resp.net = "ok" /\ ~Is2xx(env.resp.status) =>
              outcome = "RequestException"
        /\ env.exists /\ env.resp.net = "ok" /\ Is2xx(env.resp.status) /\ ~IsJson(env.resp) =>
              /\ outcome = "return"
              /\ retval.value = Uploaded(basename(args.image_path), args.subfolder)
        /\ env.exists /\ env.resp.net = "ok" /\ Is2xx(env.resp.status) /\ IsJson(env.resp)
           /\ env.resp.json = "object" /\ env.resp.hasName /\ env.resp.hasSubfolder =>
              /\ outcome = "return"
              /\ retval.value = Uploaded(env.resp.name, env.resp.subfolder)

----------------------------------------------------------------------------
(* main of the two scripts: the workflow is loaded, the client is          *)
(* constructed, the workflow is patched (the images are uploaded), and     *)
(* generate_image is called inside try/except.  The process ends with the  *)
(* value main returns, or with status 1 when an exception leaves main.     *)

Scripts == {"openpose", "qwen"}

\* str(uuid.uuid4())
ClientIds == {"c1", "c2"}

\* GET /system_stats with timeout=5: a connection error, a timeout, or a status
ProbeResponses ==
    {[net |-> "error", status |-> 0], [net |-> "timeout", status |-> 0]}
    \cup {[net |-> "ok", status |-> s] : s \in Statuses}

\* a variant of check_server_connection whose except clause is for ConnectionError only
check_server_connection_narrow(resp) ==
    IF resp.net = "timeout" THEN [err |-> "RequestException", prints |-> {}]
    ELSE IF resp.net = "error"
    THEN [err |-> "none", prints |-> {Line("Warning: Could not connect to ComfyUI server", {})}]
    ELSE IF resp.status >= 400 THEN [err |-> "RequestException", prints |-> {}]
    ELSE [err |-> "none", prints |-> {Line("Connected to ComfyUI server", {})}]

\* _check_server_connection: requests.get, raise_for_status, print; every
\* RequestException is caught and a warning is printed
check_server_connection(resp) ==
    IF resp.net # "ok" \/ resp.status >= 400
    THEN [err |-> "none", prints |-> {Line("Warning: Could not connect to ComfyUI server", {})}]
    ELSE [err |-> "none", prints |-> {Line("Connected to ComfyUI server", {})}]

\* the workflow files of the model: the nodes "1", "78" and "111" with all their
\* inputs, or without the key 'inputs'
MainNodes == {"1", "78", "111"}

MainWorkflows ==
    {[n \in WorkflowNodeIds |-> IF n \in MainNodes THEN k ELSE AbsentNode] :
        k \in {Node(TRUE, "K", TRUE, OldInputs), Node(TRUE, "K", FALSE, EmptyInputs)}}

MainArgs(script) == [helper |-> "main", script |-> script]

\* return code
MainReturns(code) ==
    /\ exit_code' = code
    /\ main_pc' = "exit"
    /\ outcome' = outcome

\* a variant of MainRaises in which main swallows the exception and returns 0
MainRaisesQuiet(e) ==
    /\ exit_code' = 0
    /\ main_pc' = "exit"
    /\ outcome' = e

\* an exception leaves main: the interpreter prints the traceback and ends with status 1
MainRaises(e) ==
    /\ exit_code' = 1
    /\ main_pc' = "exit"
    /\ outcome' = e

\* openpose: if not os.path.exists(args.workflow): return 1; then, in both scripts,
\* workflow = load_workflow(args.workflow)
MainLoad ==
    /\ main_pc = "load"
    /\ \E exists \in BOOLEAN :
        IF ~exists
        THEN /\ IF args.script = "openpose" THEN MainReturns(1)
                ELSE MainRaises("FileNotFoundError")
             /\ workflow' = workflow
        ELSE \/ /\ workflow' \in MainWorkflows
                /\ main_pc' = "construct"
                /\ UNCHANGED <<exit_code, outcome>>
             \/ /\ MainRaises("ValueError")
                /\ workflow' = workflow
    /\ UNCHANGED <<stack, pc, now, quota, ws, conn, timeout, prompt_id, waitLocals, waitHist,
                   runVars, clientVars, retval, uploaded, args, env, signal>>

\* client = ComfyUIClient(...): self.client_id = str(uuid.uuid4()); self.ws = None;
\* self._check_server_connection()
MainConstruct ==
    /\ main_pc = "construct"
    /\ \E cid \in ClientIds, resp \in ProbeResponses :
        LET r == check_server_connection(resp) IN
        /\ client_id' = cid
        /\ ws' = "none"
        /\ sent' = sent \cup {ProbeRequest(cid)}
        /\ printed' = printed \cup r.prints
        /\ IF r.err = "none"
           THEN /\ main_pc' = IF args.script = "openpose" THEN "image" ELSE "patch"
                /\ UNCHANGED <<exit_code, outcome>>
           ELSE MainRaises(r.err)
    /\ UNCHANGED <<stack, pc, now, quota, conn, timeout, prompt_id, waitLocals, waitHist,
                   runVars, workflow, retval, uploaded, args, env, signal>>

\* openpose: image_path = args.image or IMAGE_PATH, else the first image of the input
\* folder; if not image_path or not os.path.exists(image_path): return 1
MainFindImage ==
    /\ main_pc = "image"
    /\ \E found \in BOOLEAN :
        IF found
        THEN main_pc' = "patch" /\ UNCHANGED <<exit_code, outcome>>
        ELSE MainReturns(1)
    /\ UNCHANGED <<stack, pc, now, quota, ws, conn, timeout, prompt_id, waitLocals, waitHist,
                   runVars, clientVars, workflow, retval, uploaded, args, env, signal>>

\* the statement of a patch helper after the statements with result r
Then(r, next) == IF r.err # "none" THEN r ELSE next

\* the patches of main, with the client: openpose update_workflow_image on node "1";
\* qwen update_workflow_prompt(PROMPT), update_workflow_lora(LORA_NAME),
\* update_workflow_seed(SEED) with SEED = None, update_workflow_images
MainPatches(script, wf, up1, up2, up3, random_seed) ==
    IF script = "openpose" THEN update_workflow_image(wf, TRUE, ImagePath2, "1", up2)
    ELSE LET r1 == update_workflow_prompt(wf, "put three model in one image")
             r2 == Then(r1, update_workflow_lora(r1.workflow, "Qwen-Image-Edit-2509", "89"))
             r3 == Then(r2, update_workflow_seed(r2.workflow, NoSeed, "3", random_seed))
         IN Then(r3, update_workflow_images(r3.workflow, TRUE, ImagePath1, ImagePath2,
                                            ImagePath3, up1, up2, up3))

\* the patches; then the call of client.generate_image(workflow, ...) inside try
MainPatch ==
    /\ main_pc = "patch"
    /\ \E up1 \in UploadResults(ImagePath1), up2 \in UploadResults(ImagePath2),
          up3 \in UploadResults(ImagePath3), random_seed \in RandomSeeds :
        LET r == MainPatches(args.script, workflow, up1, up2, up3, random_seed) IN
        /\ workflow' = r.workflow
        /\ uploaded' = uploaded \o PathsOf(r.ups)
        /\ sent' = sent \cup {UploadRequest(client_id) :
                                 i \in {j \in 1..Len(r.ups) : r.ups[j].result.requested}}
        /\ IF r.err = "none"
           THEN /\ main_pc' = "generate"
                /\ stack' = <<"generate_image">>
                /\ pc' = "queue_prompt"
                /\ UNCHANGED <<exit_code, outcome>>
           ELSE /\ MainRaises(r.err)
                /\ UNCHANGED <<stack, pc>>
    /\ UNCHANGED <<now, quota, ws, conn, timeout, prompt_id, waitLocals, waitHist,
                   runVars, client_id, printed, retval, args, env, signal>>

\* generate_image has returned: return 0; or it has raised: except Exception: return 1
MainAfterRun ==
    /\ main_pc = "generate" /\ stack = <<>> /\ outcome # "running"
    /\ MainReturns(IF outcome = "return" THEN 0 ELSE 1)
    /\ UNCHANGED <<stack, pc, now, quota, ws, conn, timeout, prompt_id, waitLocals, waitHist,
                   runVars, clientVars, workflow, retval, uploaded, args, env, signal>>

InitMain ==
    /\ InitCommon
    /\ now = MaxTime - 1
    /\ client_id = "none"
    /\ main_pc = "load"
    /\ workflow = EmptyWorkflow
    /\ args \in {MainArgs(s) : s \in Scripts}
    /\ retval = Returns("")
    /\ stack = <<>>
    /\ pc = "none"
    /\ quota = MaxRunMsgs
    /\ timeout = 1
    /\ prompt_id = ""

NextMain ==
    \/ MainLoad
    \/ MainConstruct
    \/ MainFindImage
    \/ MainPatch
    \/ MainAfterRun
    \/ NextRun

SpecMain == InitMain /\ [][NextMain]_vars

----------------------------------------------------------------------------
(* Properties of the client inside main (checked under SpecMain).          *)

ProbeLines ==
    {Line("Warning: Could not connect to ComfyUI server", {}),
     Line("Connected to ComfyUI server", {})}

ProbeFailed == Line("Warning: Could not connect to ComfyUI server", {}) \in printed

\* C18: the construction of the client completes whatever the probe of
\* /system_stats gives (success, an error status, a connection error, a
\* timeout): the process goes on with a client that has its id and no
\* connection, and the probe changes nothing but the lines printed.
C18_ProbeNeverFails ==
    [][main_pc = "construct" =>
          /\ main_pc' = IF args.script = "openpose" THEN "image" ELSE "patch"
          /\ exit_code' = NoExit /\ outcome' = "running"
          /\ client_id' \in ClientIds /\ ws' = "none"
          /\ sent' = sent \cup {ProbeRequest(client_id')}
          /\ printed \subseteq printed' /\ printed' \ printed \subseteq ProbeLines
          /\ printed' # printed
          /\ UNCHANGED <<workflow, stack, pc, conn, uploaded, files, calls>>
      ]_vars

C18_Witness ==
    /\ ProbeFailed
    /\ exit_code = 0
    /\ Made("wait_ok") /\ uploaded # <<>> /\ saved_images # <<>>

Ops(S) == {r.op : r \in S}

\* C19 (as claimed): the client id is generated once, when the client is
\* constructed, never changes afterwards, and every request of the client
\* carries it (the probe, the upload, the submission, the websocket connection,
\* the history query, the fetch of an artifact).
C19_IdOnEveryRequest ==
    [][/\ client_id # "none" => client_id' = client_id
       /\ \A r \in sent' \ sent : r.client_id = client_id'
      ]_vars

\* C19 (amended): the client id is generated once, when the client is
\* constructed, and never changes afterwards; the submission carries it in its
\* body and the websocket connection in its URL, so the two are the same id; the
\* probe, the upload, the history query and the fetch of an artifact carry no
\* client id.
C19_IdOnSubmitAndChannel ==
    [][/\ client_id # "none" => client_id' = client_id
       /\ client_id' # client_id => main_pc = "construct" /\ client_id' \in ClientIds
       /\ \A r \in sent' \ sent :
             r.client_id = IF r.op \in {"prompt", "ws"} THEN client_id ELSE "none"
       /\ \A r \in sent' : r.op \in {"prompt", "ws"} => r.client_id = client_id' /\ client_id' # "none"
      ]_vars

C19_Witness ==
    /\ exit_code = 0 /\ client_id = "c2"
    /\ Ops(sent) = {"system_stats", "upload/image", "prompt", "ws", "history", "view"}
    /\ Request("prompt", "c2") \in sent /\ Request("ws", "c2") \in sent

\* C20: the process ends with status 0 exactly when generate_image has returned
\* (with or without paths), and with status 1 when the workflow file or the
\* input image is missing, when the upload or the submission has failed, when
\* the wait has timed out, and on any other exception.
C20_ExitCode ==
    /\ exit_code \in {NoExit, 0, 1}
    /\ main_pc = "exit" <=> exit_code # NoExit
    /\ exit_code = 0 <=> main_pc = "exit" /\ outcome = "return"
    /\ exit_code = 0 =>
          /\ Made("wait_ok") /\ Made("get_history")
          /\ Len(saved_images) = Count(calls, "write")
          /\ pc = "done" /\ stack = <<>>
    /\ main_pc = "exit" /\ outcome \notin {"running", "return"} => exit_code = 1
    /\ main_pc = "exit" /\ ~Made("queue_prompt") => exit_code = 1
    /\ main_pc = "exit" /\ Made("queue_prompt") /\ ~Made("wait_ok") => exit_code = 1

C20_Witness ==
    /\ exit_code = 0 /\ saved_images = <<>>
    /\ args.script = "qwen"
    /\ workflow["78"].inputs.image = Field(TRUE, ServerName)
    /\ workflow["111"].inputs.prompt = Field(TRUE, "put three model in one image")

----------------------------------------------------------------------------
(* The derivation of the saved name on its own: the body of the inner loop *)
(* of generate_image from the timestamp to saved_images.append, for one    *)
(* filename the history response may hold and one reading of the clock.    *)

MaxNameLen == 4

NameChars == {"a", "_", ".", "/"}

\* image_info['filename']: any string (here over NameChars, of at most MaxNameLen characters)
Filenames == UNION {[1..n -> NameChars] : n \in 0..MaxNameLen}

NameArgs(filename) == [helper |-> "new_filename", filename |-> filename]

\* timestamp = ...; name, ext = os.path.splitext(filename); new_filename = ...;
\* output_path = os.path.join(output_dir, new_filename); the file is written;
\* saved_images.append(output_path)
SaveAs ==
    /\ stack = <<"new_filename">> /\ pc = "call"
    /\ LET name == new_filename(args.filename, now)
           output_path == join(output_dir, name)
       IN /\ retval' = Returns(name)
          /\ files' = write_file(files, output_path, "image")
          /\ saved_images' = Append(saved_images, output_path)
    /\ calls' = Append(calls, "write")
    /\ outcome' = "return"
    /\ stack' = <<>>
    /\ pc' = "done"
    /\ UNCHANGED <<now, quota, ws, conn, timeout, prompt_id, waitLocals, waitHist,
                   gi_prompt_id, gi_output_images, history, posn>>
    /\ UNCHANGED <<clientVars, main_pc, workflow, exit_code, uploaded, args, env, signal>>

InitName ==
    /\ InitCommon
    /\ client_id = "c1"
    /\ main_pc = "none"
    /\ workflow = EmptyWorkflow
    /\ args \in {NameArgs(f) : f \in Filenames}
    /\ retval = Returns(<<>>)
    /\ stack = <<"new_filename">>
    /\ pc = "call"
    /\ quota = 0
    /\ timeout = 0
    /\ now \in 0..MaxTime
    /\ prompt_id = ""

NextName == SaveAs

SpecName == InitName /\ [][NextName]_vars

----------------------------------------------------------------------------
(* Properties of the saved name (checked under SpecName).                  *)

\* the number of characters of a timestamp of the format "%Y%m%d_%H%M%S"
TimestampLen == 15

IsDigit(c) == \E i \in 1..Len(Digits) : Digits[i] = c

\* seg is an underscore followed by YYYYMMDD_HHMMSS
IsTimestampSegment(seg) ==
    /\ Len(seg) = TimestampLen + 1
    /\ seg[1] = "_"
    /\ seg[10] = "_"
    /\ \A i \in (2..9) \cup (11..16) : IsDigit(seg[i])

\* the segment inserted into a saved name: the last TimestampLen + 1
\* characters of its stem
InsertedSegment(saved) ==
    LET stem == splitext(saved)[1]
    IN IF Len(stem) > TimestampLen
       THEN SubSeq(stem, Len(stem) - TimestampLen, Len(stem))
       ELSE <<>>

\* the saved name without the inserted segment, as <<stem, extension>>
StripTimestamp(saved) ==
    LET se == splitext(saved)
    IN <<SubSeq(se[1], 1, Len(se[1]) - Len(InsertedSegment(saved))), se[2]>>

EndsWith(str, tail) ==
    /\ Len(tail) <= Len(str)
    /\ SubSeq(str, Len(str) - Len(tail) + 1, Len(str)) = tail

\* C21: every saved name is the original stem, an underscore, the timestamp
\* YYYYMMDD_HHMMSS, and the original extension; stripping the inserted
\* timestamp segment from the saved name gives back the stem and the
\* extension of the original filename, whether or not it has an extension and
\* whatever underscores and dots its stem holds.  The file is written under
\* that name.
C21_NameRoundTrip ==
    outcome = "return" =>
        LET saved == retval.value
            orig == splitext(args.filename)
        IN /\ IsTimestampSegment(InsertedSegment(saved))
           /\ InsertedSegment(saved) = <<"_">> \o strftime(now)
           /\ StripTimestamp(saved) = orig
           /\ orig[1] \o orig[2] = args.filename
           /\ EndsWith(saved_images[1], saved)
           /\ \E f \in files : f.path = saved_images[1]

\* a name whose stem holds an underscore and a dot has been saved
C21_Witness ==
    /\ outcome = "return"
    /\ args.filename = <<"_", ".", ".", "a">>
    /\ splitext(args.filename) = <<(<<"_", ".">>), (<<".", "a">>)>>
    /\ StripTimestamp(retval.value) = splitext(args.filename)

----------------------------------------------------------------------------
(* generate_image with a notification channel that delivers one frame more *)
(* than under SpecRun, so that 'executed' notifications precede the        *)
(* completion signal of a run that returns.  The call starts one second    *)
(* before the end of the clock, with a timeout of one second.              *)

InitCollect ==
    /\ InitCommon
    /\ InitClient
    /\ timeout = 1
    /\ now = MaxTime - 1
    /\ stack = <<"generate_image">>
    /\ pc = "queue_prompt"
    /\ quota = MaxRunMsgs + 1
    /\ prompt_id = ""

NextCollect ==
    \/ GiQueuePrompt
    \/ WaitConnect
    \/ WaitConnectFails
    \/ WaitLoopCheck
    \/ WaitRecv
    \/ WaitRecvFails
    \/ WaitClose
    \/ WaitTimeout
    \/ WaitReturn
    \/ GiGetHistory
    \/ GiForNode
    \/ GiForImage
    \/ GiFetchAndSave
    \/ GiReturn
    \/ Tick

SpecCollect == InitCollect /\ [][NextCollect]_vars

----------------------------------------------------------------------------
(* Properties of the collection of artifacts (checked under SpecCollect).  *)

\* C22: what generate_image fetches and writes is decided by the history
\* response alone.  Once the history has been received, the paths saved so far
\* answer, one by one and in order, the first artifact references of the
\* history entry of the job, one fetch has been made for each of them (and one
\* more when that fetch raised), and a run that returns has saved a path for
\* every reference: the same list for every sequence of 'executed'
\* notifications, none included, since the mapping wait_for_completion returned
\* appears nowhere in it.
C22_HistoryAloneDecides ==
    Made("wait_ok") /\ history # NoHistory =>
        LET refs == Refs(history, gi_prompt_id)
            k == Len(saved_images)
        IN /\ k <= Len(refs)
           /\ \A i \in 1..k :
                 /\ refs[i].hasFilename
                 /\ \E t \in 0..now :
                       saved_images[i] = join(output_dir, new_filename(refs[i].filename, t))
                 /\ \E f \in files : f.path = saved_images[i]
           /\ Count(calls, "write") = k
           /\ Count(calls, "get_image") = IF outcome = "RequestException" THEN k + 1 ELSE k
           /\ outcome = "return" => k = Len(refs)
           /\ outcome = "running" /\ pc \in {"for_image", "fetch"} =>
                 k = Len(RefsOf(SubSeq(history.outputs, 1, posn[1] - 1))) + posn[2] - 1

\* a run has returned two paths for the two references of the history although
\* the channel reported one image of one node
C22_Witness ==
    /\ outcome = "return"
    /\ Len(gi_output_images) = 1
    /\ executedLog # <<>>
    /\ Len(Refs(history, gi_prompt_id)) = 2
    /\ Len(saved_images) = 2

----------------------------------------------------------------------------
(* The deadline and the blocking receive (checked under SpecWait).         *)

\* a step in which ws.recv() has returned a frame
Received == InWait /\ pc = "recv" /\ quota' = quota - 1

\* C23: the deadline is looked at before a receive and never during one.  A
\* receive is started only by a loop check that found the deadline ahead;
\* while it is pending the call does not fail with TimeoutError, however far
\* the clock goes; the frame it returns is handled in full whether or not the
\* deadline has passed in between (an 'executed' frame with images is still
\* stored); and TimeoutError is raised only by the check that follows the
\* loop, after the connection has been closed.
C23_DeadlineOnlyBetweenReceives ==
    [][/\ (InWait /\ pc = "recv") => outcome' # "TimeoutError"
       /\ (InWait /\ pc' = "recv" /\ pc # "recv") =>
              pc = "while" /\ LoopCond(now, start_time, timeout)
       /\ Received =>
              LET r == HandleFrame(lastMsg', output_images, prompt_id) IN
              /\ lastMsg' \in Frames
              /\ output_images' = r.out
              /\ r.ctl # "raise" /\ HasImageOutput(lastMsg') /\ lastMsg'.images # <<>> =>
                    DictGet(output_images', lastMsg'.node) = lastMsg'.images[Len(lastMsg'.images)]
              /\ r.ctl = "continue" => pc' = "while" /\ outcome' = outcome
              /\ r.ctl = "break" => pc' = "close" /\ outcome' = outcome
              /\ r.ctl = "raise" => outcome' = r.err /\ r.err # "TimeoutError"
       /\ (outcome = "running" /\ outcome' = "TimeoutError") =>
              pc = "final" /\ TimedOut(now, start_time, timeout)
      ]_vars

\* a wait with a timeout of one second has failed with TimeoutError MaxTime
\* seconds after its start: its last receive returned an 'executed' frame after
\* the deadline, and the image of that frame was stored
C23_Witness ==
    /\ outcome = "TimeoutError"
    /\ timeout = 1
    /\ now - start_time = MaxTime
    /\ lateRecv
    /\ HasImageOutput(lastMsg)
    /\ lastMsg.images # <<>>
    /\ DictGet(output_images, lastMsg.node) = lastMsg.images[Len(lastMsg.images)]

----------------------------------------------------------------------------
(* Termination of wait_for_completion.  The steps of the call itself are   *)
(* taken when they can be, the clock advances, and a pending receive       *)
(* returns a frame as long as the channel has one to deliver; the failures *)
(* of the connection are not owed to the call.                             *)

FairWait ==
    /\ WF_vars(WaitConnect)
    /\ WF_vars(WaitLoopCheck)
    /\ WF_vars(WaitRecv)
    /\ WF_vars(WaitClose)
    /\ WF_vars(WaitTimeout)
    /\ WF_vars(WaitReturn)
    /\ WF_vars(Tick)

\* wait_for_completion called on its own, on a channel that delivers one frame
\* more than under SpecRun
InitWaitFair ==
    /\ InitCommon
    /\ InitClient
    /\ timeout \in Timeouts
    /\ now = 0
    /\ stack = <<"wait_for_completion">>
    /\ pc = "connect"
    /\ quota = MaxRunMsgs + 1
    /\ prompt_id \in PromptIds

SpecWaitFair == InitWaitFair /\ [][NextWait]_vars /\ FairWait

\* the call is inside ws.recv() and the channel has no frame to deliver
Silent == InWait /\ pc = "recv" /\ quota = 0

\* the call stays inside a receive on a silent channel: it does not return and
\* does not fail with TimeoutError, it can only fail with the error of the connection
SilentBlocks ==
    [][Silent => \/ pc' = "recv" /\ outcome' = "running"
                 \/ outcome' = "WebSocketException"]_vars

\* C24 (as claimed): every call of wait_for_completion ends, by returning or
\* with TimeoutError, provided the clock advances and every receive delivers
\* a frame; on a channel that stays silent it neither returns nor times out.
C24_ReturnsOrTimesOut ==
    /\ <>(outcome \in {"return", "TimeoutError"}) \/ <>[]Silent
    /\ SilentBlocks

\* C24 (amended): every call of wait_for_completion ends, provided the clock
\* advances and every receive delivers a frame: by returning, with
\* TimeoutError, or with the error raised by the connection or by the
\* handling of a frame.  A call that is inside a receive on a channel that
\* stays silent neither returns nor times out, whatever the timeout.
C24_EndsOrBlocks ==
    /\ <>(outcome # "running") \/ <>[]Silent
    /\ SilentBlocks

\* a call with a positive timeout is inside a receive on a silent channel after its deadline
C24_Witness ==
    /\ Silent
    /\ outcome = "running"
    /\ timeout > 0
    /\ TimedOut(now, start_time, timeout)

----------------------------------------------------------------------------
(* generate_image and a remote service that finishes the job early.        *)
(* queue_prompt has returned and the websocket is not connected yet: a     *)
(* completion signal the service emits now reaches no connection.          *)

\* the remote service finishes the job between the response to POST /prompt
\* and create_connection
RemoteEmitsEarly ==
    /\ stack = <<"generate_image", "wait_for_completion">> /\ pc = "connect"
    /\ conn = "none"
    /\ signal = "none"
    /\ signal' = "lost"
    /\ UNCHANGED <<stack, pc, outcome, now, quota, ws, conn, timeout, prompt_id, waitLocals,
                   waitHist, runVars, clientVars>>
    /\ UNCHANGED <<main_pc, workflow, retval, exit_code, uploaded, args, env>>

InitRace == InitRun

NextRace ==
    \/ RemoteEmitsEarly
    \/ NextRun

SpecRace == InitRace /\ [][NextRace]_vars

----------------------------------------------------------------------------
(* Properties of the race (checked under SpecRace).                        *)

\* the websocket is connected only after queue_prompt has returned the id of
\* the job, and no frame is received before the connection is open
OpenedAfterSubmit ==
    /\ conn # "none" => Made("queue_prompt") /\ prompt_id = gi_prompt_id
    /\ pc = "queue_prompt" => conn = "none" /\ lastMsg = NoFrame /\ signal = "none"
    /\ lastMsg # NoFrame => conn # "none"

\* C25 (as claimed): the channel is opened only after queue_prompt has
\* returned, and when the remote service emitted the completion signal of the
\* job before the channel was connected, the signal is never observed and the
\* run does not complete: it ends with TimeoutError or blocks.
C25_LostSignalTimesOutOrBlocks ==
    /\ OpenedAfterSubmit
    /\ signal = "lost" =>
          /\ ~sawSignal
          /\ ~Made("wait_ok")
          /\ outcome \in {"running", "TimeoutError"}

\* C25 (amended): the channel is opened only after queue_prompt has returned,
\* and when the remote service emitted the completion signal of the job
\* before the channel was connected, the signal is never observed and the run
\* does not complete: the wait does not return, the history is not asked for
\* and nothing is saved; the run ends with TimeoutError, blocks, or fails with
\* the error of the connection or of the handling of another frame.
C25_LostSignalNeverCompletes ==
    /\ OpenedAfterSubmit
    /\ signal = "lost" =>
          /\ ~sawSignal
          /\ ~Made("wait_ok")
          /\ Lifecycle # "Completed"
          /\ outcome # "return"
          /\ ~Made("get_history") /\ history = NoHistory /\ saved_images = <<>>
          /\ outcome \in {"running", "TimeoutError", "WebSocketException", "KeyError",
                          "JSONDecodeError", "TypeError"}

\* the signal was lost, the loop has handled a frame that names another job as
\* finished, and the run has ended with TimeoutError
C25_Witness ==
    /\ signal = "lost"
    /\ outcome = "TimeoutError"
    /\ lastMsg = ExecutingFrame(TRUE, "null", TRUE, "p2")
    /\ prompt_id = "p1"

----------------------------------------------------------------------------
(* The mapping of wait_for_completion against the 'executed' messages      *)
(* received, whatever job they name (checked under SpecWait).              *)

\* C26: in every state of the wait, whatever frames have been received, the
\* mapping has at most one entry per node; its nodes are the nodes of the
\* 'executed' messages with a non-empty image list received so far; the entry
\* of a node is the last image of the most recent such message for the node
\* (the images before it in that message and the earlier messages of the node
\* are overwritten); and the prompt id of a message plays no part: the
\* messages of other jobs are stored like those of the job waited on.
C26_LastImagePerNodeAnyJob ==
    /\ \A i, j \in 1..Len(output_images) :
          output_images[i].key = output_images[j].key => i = j
    /\ DictKeys(output_images) = {executedLog[i].node : i \in 1..Len(executedLog)}
    /\ \A i \in 1..Len(executedLog) :
          LET n == executedLog[i].node
              later == {j \in (i + 1)..Len(executedLog) : executedLog[j].node = n}
          IN later = {} =>
                DictGet(output_images, n) = executedLog[i].images[Len(executedLog[i].images)]

\* a wait for p1 has returned a mapping whose only entry is the last image of
\* the second of two 'executed' messages of one node, the second sent for job p2
C26_Witness ==
    /\ outcome = "return"
    /\ prompt_id = "p1"
    /\ Len(executedLog) = 2
    /\ executedLog[1] = [node |-> "n1", images |-> <<"a", "b">>, pid |-> ""]
    /\ executedLog[2] = [node |-> "n1", images |-> <<"a">>, pid |-> "p2"]
    /\ output_images = <<[key |-> "n1", val |-> "a"]>>

====
